---- MODULE Spec2Model ----
(***************************************************************************)
(* Model of static/app.ts: the client-side table / plot state              *)
(* synchronisation of the data plotter.                                    *)
(*                                                                         *)
(* Representation.                                                         *)
(*   - A text typed into a cell, or held by a Date value, is a sequence of *)
(*     one-character strings, so that trim, parseFloat, Number.toString    *)
(*     and the date regular expression are computed character by           *)
(*     character.                                                          *)
(*   - A number is an integer count of hundredths (3.5 is 350).  The typed *)
(*     texts of the model carry at most two decimals, no exponent and no   *)
(*     "Infinity" literal.                                                 *)
(*   - A column identifier is a string.  The text of a header cell is a    *)
(*     sequence of tokens, a token being a run of blanks " " or a run of   *)
(*     other characters.                                                   *)
(*   - A Row (a JavaScript object) is a sequence of [k, v] entries in      *)
(*     insertion order, the order Object.keys returns.                     *)
(***************************************************************************)
EXTENDS Integers, Sequences, FiniteSets, TLC

VARIABLES
    loaded,         \* the DOMContentLoaded handler has finished
    tableData,      \* let tableData: RowData[]
    columnCounter,  \* let columnCounter: number
    headers,        \* #dataTable thead th, in DOM order
    inputs,         \* .input-row input, in DOM order
    xAxis,          \* select#xAxis
    yAxis1,         \* select#yAxis1
    yAxis2,         \* select#yAxis2
    body,           \* #dataTable tbody tr:not(.input-row), in DOM order
    chart,          \* div#plot: what the last Plotly.newPlot was given
    panel,          \* div#correlationMatrix: what it shows
    results,        \* div#correlationResults: what it shows
    requests,       \* fetch calls issued and not yet answered
    backend,        \* the Dataset the server holds
    lastOp,         \* the handler that ran last, and how it ended
    gestures,       \* how many user gestures the page has handled
    device          \* the device's time zone and what its clock reads

vars == <<loaded, tableData, columnCounter, headers, inputs, xAxis, yAxis1,
          yAxis2, body, chart, panel, results, requests, backend, lastOp,
          gestures, device>>

-----------------------------------------------------------------------------
(* Bounds *)

MaxCols == 3
MaxPending == 2
MaxGestures == 3

\* Rows of a saved table the plot is drawn from.
MaxRows == 3

-----------------------------------------------------------------------------
(* Characters and texts *)

Digits == <<"0", "1", "2", "3", "4", "5", "6", "7", "8", "9">>

IsDigit(c) == \E i \in 1..10 : Digits[i] = c

DigitVal(c) == (CHOOSE i \in 1..10 : Digits[i] = c) - 1

RECURSIVE TrimLeft(_)
TrimLeft(t) ==
    IF t # <<>> /\ Head(t) = " " THEN TrimLeft(Tail(t)) ELSE t

RECURSIVE TrimRight(_)
TrimRight(t) ==
    IF t # <<>> /\ t[Len(t)] = " " THEN TrimRight(SubSeq(t, 1, Len(t) - 1)) ELSE t

Trim(t) == TrimRight(TrimLeft(t))

\* The length of the longest run of digits of t that starts at position i.
RECURSIVE DigitRun(_, _)
DigitRun(t, i) ==
    IF i <= Len(t) /\ IsDigit(t[i]) THEN 1 + DigitRun(t, i + 1) ELSE 0

\* The value of the digits t[i..i+n-1] read as a decimal integer.
RECURSIVE DigitsValue(_, _, _)
DigitsValue(t, i, n) ==
    IF n = 0 THEN 0
    ELSE DigitsValue(t, i, n - 1) * 10 + DigitVal(t[i + n - 1])

\* Hundredths denoted by the fraction digits t[i..i+n-1] (n <= 2).
FractionValue(t, i, n) ==
    IF n = 0 THEN 0
    ELSE IF n = 1 THEN DigitVal(t[i]) * 10
    ELSE DigitVal(t[i]) * 10 + DigitVal(t[i + 1])

NaN == [nan |-> TRUE, num |-> 0]

\* parseFloat: the longest prefix that is a decimal literal, NaN if none.
parseFloat(t) ==
    LET s == TrimLeft(t)
        signed == s # <<>> /\ s[1] \in {"-", "+"}
        neg == s # <<>> /\ s[1] = "-"
        start == IF signed THEN 2 ELSE 1
        ni == DigitRun(s, start)
        dot == start + ni
        hasDot == dot <= Len(s) /\ s[dot] = "."
        nf == IF hasDot THEN DigitRun(s, dot + 1) ELSE 0
        mag == DigitsValue(s, start, ni) * 100 + FractionValue(s, dot + 1, nf)
    IN  IF ni = 0 /\ nf = 0 THEN NaN
        ELSE [nan |-> FALSE, num |-> IF neg THEN 0 - mag ELSE mag]

RECURSIVE NatToText(_)
NatToText(n) ==
    IF n < 10 THEN <<Digits[n + 1]>>
    ELSE NatToText(n \div 10) \o <<Digits[(n % 10) + 1]>>

\* Number.prototype.toString of the number n hundredths.
NumberToString(n) ==
    LET mag == IF n < 0 THEN 0 - n ELSE n
        whole == mag \div 100
        frac == mag % 100
        fracText == IF frac = 0 THEN <<>>
                    ELSE IF frac % 10 = 0 THEN <<".", Digits[(frac \div 10) + 1]>>
                    ELSE <<".", Digits[(frac \div 10) + 1], Digits[(frac % 10) + 1]>>
    IN  (IF n < 0 THEN <<"-">> ELSE <<>>) \o NatToText(whole) \o fracText

\* A test that also asks for a month up to 12 and a day up to 31.
CalendarDateTest(t) ==
    /\ Len(t) = 10
    /\ \A i \in {1, 2, 3, 4, 6, 7, 9, 10} : IsDigit(t[i])
    /\ t[5] = "-"
    /\ t[8] = "-"
    /\ DigitsValue(t, 6, 2) \in 1..12
    /\ DigitsValue(t, 9, 2) \in 1..31

\* /^\d{4}-\d{2}-\d{2}$/.test(t)
DateRegexTest(t) ==
    /\ Len(t) = 10
    /\ \A i \in {1, 2, 3, 4, 6, 7, 9, 10} : IsDigit(t[i])
    /\ t[5] = "-"
    /\ t[8] = "-"

-----------------------------------------------------------------------------
(* Values and Rows *)

Num(n) == [kind |-> "num", num |-> n, str |-> <<>>]

Str(t) == [kind |-> "str", num |-> 0, str |-> t]

\* value.toString() of a cell value
ValueToString(v) == IF v.kind = "num" THEN NumberToString(v.num) ELSE v.str

\* An empty slot of the tableData array (an index below length never assigned).
Hole == <<[k |-> "<empty slot>", v |-> Num(0)]>>

IsHole(row) == row = Hole

Keys(row) == [i \in 1..Len(row) |-> row[i].k]

KeySet(row) == {row[i].k : i \in 1..Len(row)}

Has(row, key) == key \in KeySet(row)

Get(row, key) == row[CHOOSE i \in 1..Len(row) : row[i].k = key].v

\* row[key] = v: an existing key keeps its place, a new key goes last.
Put(row, key, v) ==
    IF Has(row, key)
    THEN [i \in 1..Len(row) |-> IF row[i].k = key THEN [k |-> key, v |-> v] ELSE row[i]]
    ELSE Append(row, [k |-> key, v |-> v])

\* delete row[key]
Delete(row, key) == SelectSeq(row, LAMBDA e : e.k # key)

\* {...x}: the own entries of x, none when x is undefined.
Spread(x) == IF IsHole(x) THEN <<>> ELSE x

Includes(seq, x) == \E i \in 1..Len(seq) : seq[i] = x

-----------------------------------------------------------------------------
(* The page: the program state as one record, and the DOM helpers *)

Cur ==
    [loaded |-> loaded, tableData |-> tableData, columnCounter |-> columnCounter,
     headers |-> headers, inputs |-> inputs, xAxis |-> xAxis, yAxis1 |-> yAxis1,
     yAxis2 |-> yAxis2, body |-> body, chart |-> chart, panel |-> panel,
     results |-> results, requests |-> requests, backend |-> backend, lastOp |-> lastOp,
     device |-> device]

Commit(s) ==
    \E t \in {s} :
        /\ loaded' = t.loaded
        /\ tableData' = t.tableData
        /\ columnCounter' = t.columnCounter
        /\ headers' = t.headers
        /\ inputs' = t.inputs
        /\ xAxis' = t.xAxis
        /\ yAxis1' = t.yAxis1
        /\ yAxis2' = t.yAxis2
        /\ body' = t.body
        /\ chart' = t.chart
        /\ panel' = t.panel
        /\ results' = t.results
        /\ requests' = t.requests
        /\ backend' = t.backend
        /\ lastOp' = t.lastOp
        /\ device' = t.device

\* A click, drop or blur of the user, handled by the state transformer given.
Gesture(s) ==
    /\ loaded
    /\ gestures < MaxGestures
    /\ gestures' = gestures + 1
    /\ Commit(s)

Op(name, outcome) == [name |-> name, outcome |-> outcome]

DefaultColumns == <<"Date", "Variable 1", "Variable 2">>

\* A template that leaves every header editable, the Date header too.
HeaderCellEditable(col) ==
    [col |-> col, text |-> <<col>>, editable |-> TRUE, n |-> 0]

\* <th contenteditable="${col !== 'Date'}" data-column="${col}">${col}</th>
HeaderCell(col) ==
    [col |-> col, text |-> <<col>>, editable |-> (col # "Date"), n |-> 0]

\* new Date(y, m, d).toISOString().split('T')[0] of the day the clock of the
\* device reads. s.device.zone is the offset of the device's time zone from
\* UTC in hours (local time is UTC + zone); s.device.day and s.device.hour are
\* the instant the clock reads, as the day of February 2024 and the hour of
\* that day in UTC.
getTodayLocal(s) ==
    LET now == (s.device.day * 24) + s.device.hour
        \* now.getFullYear(), now.getMonth(), now.getDate(): the calendar
        \* day of the instant in the zone of the device.
        localDay == (now + s.device.zone) \div 24
        \* new Date(y, m, d): the instant of midnight of that day in the zone
        \* of the device, in hours of UTC.
        midnight == (localDay * 24) - s.device.zone
        \* toISOString().split('T')[0]: the calendar day of that instant in
        \* UTC, as YYYY-MM-DD.
        utcDay == midnight \div 24
    IN  <<"2", "0", "2", "4", "-", "0", "2", "-">>
        \o (IF utcDay < 10 THEN <<"0">> ELSE <<>>) \o NatToText(utcDay)

\* <td><input id="${col}" ...></td>: the Date input starts at today's date,
\* a number input starts empty.
InputCell(s, col) ==
    [id |-> col, value |-> IF col = "Date" THEN getTodayLocal(s) ELSE <<>>]

NoSelect == [options |-> <<>>, value |-> ""]

\* div#correlationResults before anything was written to it.
NoResults == [shown |-> "empty", pairs |-> <<>>, got |-> <<>>]

\* select.value = v: the option with that value becomes the selected one; when
\* no option has it, no option is selected and select.value reads "".
SetSelectValue(sel, v) ==
    [sel EXCEPT !.value = IF Includes(sel.options, v) THEN v ELSE ""]

\* innerHTML = '' followed by appendChild of one option per column: a
\* drop-down with nothing selected selects the first option inserted.
WithOptions(cols) ==
    [options |-> cols, value |-> IF cols = <<>> THEN "" ELSE cols[1]]

\* A resolution that reads the first Row before the header elements.
getColumnHeadersFromRows(s) ==
    LET columns == [i \in 1..Len(s.headers) |-> s.headers[i].col]
    IN  IF Len(s.tableData) > 0
        THEN Keys(s.tableData[1])
        ELSE IF Len(s.headers) > 0 /\ \A i \in 1..Len(columns) : columns[i] # ""
        THEN columns
        ELSE DefaultColumns

getColumnHeaders(s) ==
    LET columns == [i \in 1..Len(s.headers) |-> s.headers[i].col]
    IN  IF Len(s.headers) > 0 /\ \A i \in 1..Len(columns) : columns[i] # ""
        THEN columns
        ELSE IF Len(s.tableData) > 0
        THEN Keys(s.tableData[1])
        ELSE DefaultColumns

\* The cell text of renderTableRows: row[key], '' when undefined.
CellText(row, key) == IF Has(row, key) THEN ValueToString(Get(row, key)) ELSE <<>>

RenderedRow(row, dataIndex, columnOrder) ==
    [index |-> dataIndex,
     row |-> row,
     cells |-> [j \in 1..Len(columnOrder) |->
                   [col |-> columnOrder[j], text |-> CellText(row, columnOrder[j])]]]

\* The indices of tableData that forEach and map visit, in order.
RECURSIVE VisitedFrom(_, _)
VisitedFrom(data, i) ==
    IF i > Len(data) THEN <<>>
    ELSE IF IsHole(data[i]) THEN VisitedFrom(data, i + 1)
    ELSE <<i>> \o VisitedFrom(data, i + 1)

Visited(data) == VisitedFrom(data, 1)

\* The cells of the rows removed stay referenced by their pending handlers,
\* detached from the document.
Detach(reqs) == [i \in 1..Len(reqs) |-> [reqs[i] EXCEPT !.attached = FALSE]]

renderTableRows(s) ==
    LET columnOrder == getColumnHeaders(s)
        idx == Visited(s.tableData)
    IN  [s EXCEPT
            !.body = [r \in 1..Len(idx) |->
                         RenderedRow(s.tableData[idx[r]], idx[r], columnOrder)],
            !.requests = Detach(s.requests)]

\* d[key] of a Row d: undefined when d has no such key.
Undefined == [kind |-> "undefined", num |-> 0, str |-> <<>>]

Prop(row, key) == IF Has(row, key) THEN Get(row, key) ELSE Undefined

\* new Date(v).getTime(): NaN unless v is a date text with a month of 1..12
\* and a day of 1..31; the number stands for the milliseconds, in their order.
DateTime(v) ==
    IF v.kind = "num" THEN [nan |-> FALSE, num |-> v.num]
    ELSE IF v.kind = "str" /\ DateRegexTest(v.str)
            /\ DigitsValue(v.str, 6, 2) \in 1..12 /\ DigitsValue(v.str, 9, 2) \in 1..31
    THEN [nan |-> FALSE,
          num |-> (DigitsValue(v.str, 1, 4) * 12 + DigitsValue(v.str, 6, 2)) * 31
                      + DigitsValue(v.str, 9, 2)]
    ELSE NaN

\* a - b: a number when both operands are numbers, NaN otherwise.
Minus(a, b) ==
    IF a.nan \/ b.nan THEN NaN ELSE [nan |-> FALSE, num |-> a.num - b.num]

ToNumber(v) == IF v.kind = "num" THEN [nan |-> FALSE, num |-> v.num] ELSE NaN

\* A comparator that takes every X value for a number.
PlotCompareNumbers(a, b, xKey) ==
    Minus(ToNumber(Prop(a, xKey)), ToNumber(Prop(b, xKey)))

\* The comparator of updatePlot.
PlotCompare(a, b, xKey) ==
    IF xKey = "Date"
    THEN Minus(DateTime(Prop(a, xKey)), DateTime(Prop(b, xKey)))
    ELSE Minus(ToNumber(Prop(a, xKey)), ToNumber(Prop(b, xKey)))

\* x goes before the elements of the sorted prefix it compares below; a NaN
\* comparison moves nothing.
RECURSIVE InsertSorted(_, _, _)
InsertSorted(sorted, x, xKey) ==
    IF sorted = <<>> THEN <<x>>
    ELSE LET last == sorted[Len(sorted)]
             order == PlotCompare(x, last, xKey)
         IN  IF ~order.nan /\ order.num < 0
             THEN Append(InsertSorted(SubSeq(sorted, 1, Len(sorted) - 1), x, xKey), last)
             ELSE Append(sorted, x)

RECURSIVE SortFrom(_, _, _)
SortFrom(data, i, xKey) ==
    IF i = 0 THEN <<>>
    ELSE InsertSorted(SortFrom(data, i - 1, xKey), data[i], xKey)

\* [...tableData].sort(comparator), for the Rows of tableData: a stable sort
\* (empty slots become undefined elements, which sort places last).
SortedData(data, xKey) ==
    LET rows == SelectSeq(data, LAMBDA d : ~IsHole(d))
    IN  SortFrom(rows, Len(rows), xKey)

\* sortedData.map(d => d[xAxis]) throws a TypeError on an undefined element.
PlotThrows(s) == \E i \in 1..Len(s.tableData) : IsHole(s.tableData[i])

NoChart == [names |-> <<>>, x |-> <<>>, y1 |-> <<>>, y2 |-> <<>>]

\* The two traces Plotly.newPlot is given.
Traces(data, x, y1, y2) ==
    LET sortedData == SortedData(data, x)
    IN  [names |-> <<x, y1, y2>>,
         x |-> [i \in 1..Len(sortedData) |-> Prop(sortedData[i], x)],
         y1 |-> [i \in 1..Len(sortedData) |-> Prop(sortedData[i], y1)],
         y2 |-> [i \in 1..Len(sortedData) |-> Prop(sortedData[i], y2)]]

\* A plot that sorts the table itself, not a copy of it.
updatePlotSortingInPlace(s) ==
    IF PlotThrows(s) THEN s
    ELSE [s EXCEPT !.chart = Traces(s.tableData, s.xAxis.value, s.yAxis1.value,
                                    s.yAxis2.value),
                   !.tableData = SortedData(s.tableData, s.xAxis.value)]

\* When it throws, the plot stays as it was.
updatePlot(s) ==
    IF PlotThrows(s) THEN s
    ELSE [s EXCEPT !.chart = Traces(s.tableData, s.xAxis.value, s.yAxis1.value,
                                    s.yAxis2.value)]

NonDate(cols) == SelectSeq(cols, LAMBDA col : col # "Date")

FirstOr(seq, other) == IF seq # <<>> THEN seq[1] ELSE other

\* A rebuild that ignores the preferred values.
updateDropdownSelectorsToDefaults(s, desiredX, desiredY1, desiredY2) ==
    LET columnNames == getColumnHeaders(s)
        nonDateColumns == NonDate(columnNames)
        x == SetSelectValue(WithOptions(columnNames), "Date")
        y1 == SetSelectValue(WithOptions(nonDateColumns),
                             FirstOr(nonDateColumns, columnNames[1]))
        availableColumns == SelectSeq(nonDateColumns, LAMBDA col : col # y1.value)
        y2 == SetSelectValue(WithOptions(nonDateColumns),
                  FirstOr(availableColumns, FirstOr(nonDateColumns, columnNames[1])))
    IN  [s EXCEPT !.xAxis = x, !.yAxis1 = y1, !.yAxis2 = y2]

\* A preferred value "" stands for an argument left out (both are falsy).
updateDropdownSelectors(s, desiredX, desiredY1, desiredY2) ==
    LET columnNames == getColumnHeaders(s)
        nonDateColumns == NonDate(columnNames)
        x0 == WithOptions(columnNames)
        y0 == WithOptions(nonDateColumns)
        x == IF desiredX # "" /\ Includes(columnNames, desiredX)
             THEN SetSelectValue(x0, desiredX)
             ELSE SetSelectValue(x0, "Date")
        y1 == IF desiredY1 # "" /\ Includes(nonDateColumns, desiredY1)
              THEN SetSelectValue(y0, desiredY1)
              ELSE SetSelectValue(y0, FirstOr(nonDateColumns, columnNames[1]))
        availableColumns == SelectSeq(nonDateColumns, LAMBDA col : col # y1.value)
        y2 == IF desiredY2 # "" /\ Includes(nonDateColumns, desiredY2)
              THEN SetSelectValue(y0, desiredY2)
              ELSE SetSelectValue(y0,
                       FirstOr(availableColumns, FirstOr(nonDateColumns, columnNames[1])))
    IN  [s EXCEPT !.xAxis = x, !.yAxis1 = y1, !.yAxis2 = y2]

\* One more keydown and one more blur listener on every header cell.
setupColumnTitleListeners(s) ==
    [s EXCEPT !.headers =
        [i \in 1..Len(s.headers) |->
            IF s.headers[i].col = "" THEN s.headers[i]
            ELSE [s.headers[i] EXCEPT !.n = @ + 1]]]

SetHeaders(s, columns) ==
    [s EXCEPT !.headers = [i \in 1..Len(columns) |-> HeaderCell(columns[i])]]

SetInputs(s, columns) ==
    [s EXCEPT !.inputs = [i \in 1..Len(columns) |-> InputCell(s, columns[i])]]

updateTableHeaders(s) ==
    setupColumnTitleListeners(SetHeaders(s, getColumnHeaders(s)))

updateInputRow(s) == SetInputs(s, getColumnHeaders(s))

-----------------------------------------------------------------------------
(* Requests to the backend *)

\* A fetch in flight.  cb names the continuation attached to it; a cell edit's
\* continuation closes over rowIndex, columnName, the Row captured when the
\* cell was rendered, and the cell element (its place in body while attached).
\* before and shownBefore are history, read by no handler: the Row and the
\* cell text as they were when the edit began.
Request(url, data, cb) ==
    [url |-> url, body |-> data, cb |-> cb, rowIndex |-> 0, columnName |-> "",
     row |-> <<>>, cell |-> <<0, 0>>, attached |-> FALSE,
     before |-> <<>>, shownBefore |-> <<>>]

Fetch(s, req) == [s EXCEPT !.requests = Append(@, req)]

RemoveAt(seq, i) == SubSeq(seq, 1, i - 1) \o SubSeq(seq, i + 1, Len(seq))

\* What the server stores once it has served a request.
BackendAfter(stored, req) ==
    CASE req.url = "replace_data" -> req.body
      [] req.url = "import_datafile" -> req.body
      [] req.url = "reset_table" -> <<>>
      [] req.url = "clear_data" -> <<>>
      [] req.url = "add_row" -> Append(stored, req.body)
      [] OTHER -> stored

-----------------------------------------------------------------------------
(* Page load *)

\* The body of the DOMContentLoaded handler once get_data has answered.
LoadColumns(data) ==
    IF Len(data) > 0
    THEN <<"Date">> \o SelectSeq(Keys(data[1]), LAMBDA col : col # "Date")
    ELSE DefaultColumns

\* A handler that ends before the plot is drawn.
OnLoadWithoutPlot(s, data) ==
    LET columns == LoadColumns(data)
        s1 == [s EXCEPT !.tableData = data, !.columnCounter = Len(columns)]
        s2 == setupColumnTitleListeners(SetInputs(SetHeaders(s1, columns), columns))
        s3 == renderTableRows(updateInputRow(updateTableHeaders(s2)))
        s4 == updateDropdownSelectors(s3, "", "", "")
    IN  [s4 EXCEPT !.loaded = TRUE, !.lastOp = Op("load", "ok")]

OnLoad(s, data) ==
    LET columns == LoadColumns(data)
        s1 == [s EXCEPT !.tableData = data, !.columnCounter = Len(columns)]
        s2 == setupColumnTitleListeners(SetInputs(SetHeaders(s1, columns), columns))
        s3 == renderTableRows(updateInputRow(updateTableHeaders(s2)))
        s4 == updatePlot(updateDropdownSelectors(s3, "", "", ""))
    IN  [s4 EXCEPT !.loaded = TRUE, !.lastOp = Op("load", "ok")]

\* The DOMContentLoaded handler.  auth is how the auth-status fetch ended
\* and got how the get_data fetch ended: a failed auth-status is logged by
\* displayUserName and the handler goes on; an error status of get_data
\* carries a JSON object, which has no length; a rejected get_data ends the
\* handler in its catch.
pageLoad(s, auth, got, stored) ==
    IF got = "networkError"
    THEN [s EXCEPT !.lastOp = Op("load", "failed")]
    ELSE LET s1 == OnLoad(s, IF got = "ok" THEN stored ELSE <<>>)
         IN  IF auth = "ok" THEN s1
             ELSE [s1 EXCEPT !.lastOp = Op("load", "auth error logged")]

-----------------------------------------------------------------------------
(* addColumn *)

NewColumnKey(counter) == "Variable " \o ToString(counter)

\* A loop that gives the key to the first Row only.
WithColumnInFirst(data, key) ==
    [i \in 1..Len(data) |->
        IF IsHole(data[i]) \/ i > 1 THEN data[i] ELSE Put(data[i], key, Num(0))]

\* tableData.forEach(row => { row[newColumnKey] = 0; })
WithColumn(data, key) ==
    [i \in 1..Len(data) |->
        IF IsHole(data[i]) THEN data[i] ELSE Put(data[i], key, Num(0))]

addColumn(s) ==
    LET newColumnKey == NewColumnKey(s.columnCounter)
        s1 == [s EXCEPT
                  !.columnCounter = @ + 1,
                  !.headers = Append(@, [HeaderCell(newColumnKey) EXCEPT !.editable = TRUE]),
                  !.inputs = Append(@, InputCell(s, newColumnKey)),
                  !.tableData = WithColumn(@, newColumnKey)]
        s2 == Fetch(s1, Request("replace_data", s1.tableData, "addColumn"))
        s3 == setupColumnTitleListeners(
                  updateDropdownSelectors(renderTableRows(s2), "", "", ""))
    IN  [s3 EXCEPT !.lastOp = Op("addColumn", "ok")]

-----------------------------------------------------------------------------
(* addRow *)

\* document.getElementById(id): the first input with that id, 0 when none.
InputById(ins, id) ==
    IF \E i \in 1..Len(ins) : ins[i].id = id
    THEN CHOOSE i \in 1..Len(ins) :
            ins[i].id = id /\ \A j \in 1..(i - 1) : ins[j].id # id
    ELSE 0

\* input ? input.value : ''
InputValue(ins, id) ==
    IF InputById(ins, id) = 0 THEN <<>> ELSE ins[InputById(ins, id)].value

NotANumber == [kind |-> "NaN", num |-> 0, str |-> <<>>]

\* (value && value.trim() !== '') ? parseFloat(value) : 0
InputNumber(value) ==
    IF Trim(value) = <<>> THEN Num(0)
    ELSE IF parseFloat(value).nan THEN NotANumber
    ELSE Num(parseFloat(value).num)

\* newRow after columnOrder.forEach has visited the first n identifiers.
RECURSIVE NewRowFrom(_, _, _, _)
NewRowFrom(ins, date, columnOrder, n) ==
    IF n = 0 THEN <<[k |-> "Date", v |-> Str(date)]>>
    ELSE LET key == columnOrder[n]
             sofar == NewRowFrom(ins, date, columnOrder, n - 1)
         IN  IF key = "Date" THEN sofar
             ELSE Put(sofar, key, InputNumber(InputValue(ins, key)))

\* dateInput.value = ''; and input.value = '' for each column's input.
ClearedInputs(ins, columnNames) ==
    [i \in 1..Len(ins) |->
        IF /\ i = InputById(ins, ins[i].id)
           /\ (ins[i].id = "Date" \/ Includes(columnNames, ins[i].id))
        THEN [ins[i] EXCEPT !.value = <<>>]
        ELSE ins[i]]

\* The inputs as the user leaves them before the click: dateText in the Date
\* input, valueText in every number input.
FilledInputs(ins, dateText, valueText) ==
    [i \in 1..Len(ins) |->
        [ins[i] EXCEPT !.value = IF ins[i].id = "Date" THEN dateText ELSE valueText]]

addRow(s) ==
    IF InputById(s.inputs, "Date") = 0
    THEN [s EXCEPT !.lastOp = Op("addRow", "threw")]
    ELSE LET typedDate == InputValue(s.inputs, "Date")
             date == IF typedDate = <<>> THEN getTodayLocal(s) ELSE typedDate
             columnOrder == getColumnHeaders(s)
             newRow == NewRowFrom(s.inputs, date, columnOrder, Len(columnOrder))
             s1 == [s EXCEPT !.tableData = Append(@, newRow)]
             s2 == Fetch(s1, Request("add_row", newRow, "addRow"))
             s3 == [s2 EXCEPT !.inputs = ClearedInputs(@, columnOrder)]
         IN  [updatePlot(renderTableRows(s3)) EXCEPT !.lastOp = Op("addRow", "ok")]

-----------------------------------------------------------------------------
(* clearAllData *)

\* A handler that does not ask.
clearAllDataUnasked(s, confirmed) ==
    [Fetch(s, Request("clear_data", <<>>, "clear")) EXCEPT
        !.lastOp = Op("clearAllData", "confirmed")]

clearAllData(s, confirmed) ==
    IF confirmed
    THEN [Fetch(s, Request("clear_data", <<>>, "clear")) EXCEPT
             !.lastOp = Op("clearAllData", "confirmed")]
    ELSE [s EXCEPT !.lastOp = Op("clearAllData", "declined")]

\* A continuation that empties the table it holds and ignores the answer.
OnClearDataLocally(s, data) ==
    LET s1 == [s EXCEPT !.tableData = <<>>]
    IN  [updatePlot(renderTableRows(s1)) EXCEPT !.lastOp = Op("clearResponse", "cleared")]

\* The continuation of clearAllData once get_data has answered.
OnClearData(s, data) ==
    LET s1 == [s EXCEPT !.tableData = data]
    IN  [updatePlot(renderTableRows(s1)) EXCEPT !.lastOp = Op("clearResponse", "cleared")]

-----------------------------------------------------------------------------
(* Column rename: the blur listener of a header cell *)

RECURSIVE StripLeadingBlanks(_)
StripLeadingBlanks(toks) ==
    IF toks # <<>> /\ Head(toks) = " " THEN StripLeadingBlanks(Tail(toks)) ELSE toks

RECURSIVE StripTrailingBlanks(_)
StripTrailingBlanks(toks) ==
    IF toks # <<>> /\ toks[Len(toks)] = " "
    THEN StripTrailingBlanks(SubSeq(toks, 1, Len(toks) - 1))
    ELSE toks

RECURSIVE Concat(_)
Concat(toks) == IF toks = <<>> THEN "" ELSE Head(toks) \o Concat(Tail(toks))

\* this.textContent?.trim() of a header cell
HeaderTitle(toks) == Concat(StripTrailingBlanks(StripLeadingBlanks(toks)))

\* const newRow = {...row}; newRow[newKey] = newRow[oldKey]; delete newRow[oldKey]
RenameKey(row, oldKey, newKey) ==
    IF Has(row, oldKey)
    THEN Delete(Put(row, newKey, Get(row, oldKey)), oldKey)
    ELSE row

RenamedData(data, oldKey, newKey) ==
    [i \in 1..Len(data) |->
        IF IsHole(data[i]) THEN data[i] ELSE RenameKey(data[i], oldKey, newKey)]

\* document.getElementById(oldKey).id = newKey: the first input with that id.
RenameInput(ins, oldKey, newKey) ==
    IF \E i \in 1..Len(ins) : ins[i].id = oldKey
    THEN LET first == CHOOSE i \in 1..Len(ins) :
                          /\ ins[i].id = oldKey
                          /\ \A j \in 1..(i - 1) : ins[j].id # oldKey
         IN  [ins EXCEPT ![first].id = newKey]
    ELSE ins

\* if (select.value === oldKey) select.value = newTitle
Repoint(sel, oldKey, newTitle) ==
    IF sel.value = oldKey THEN SetSelectValue(sel, newTitle) ELSE sel

RevertHeader(s, h, oldKey, outcome) ==
    [s EXCEPT !.headers[h].text = <<oldKey>>, !.lastOp = Op("headerBlur", outcome)]

\* A rename that leaves data-column of the header as it was.
CommitRenameKeepingIdentifier(s, h, oldKey, newKey) ==
    LET x == Repoint(s.xAxis, oldKey, newKey)
        y1 == Repoint(s.yAxis1, oldKey, newKey)
        y2 == Repoint(s.yAxis2, oldKey, newKey)
        s1 == [s EXCEPT !.xAxis = x, !.yAxis1 = y1, !.yAxis2 = y2]
        replot == x.value = newKey \/ y1.value = newKey \/ y2.value = newKey
        s2 == IF replot THEN updatePlot(s1) ELSE s1
        currentX == s2.xAxis.value
        currentY1 == s2.yAxis1.value
        currentY2 == s2.yAxis2.value
        updatedData == RenamedData(s2.tableData, oldKey, newKey)
        s3 == [s2 EXCEPT
                  !.tableData = updatedData,
                  !.inputs = RenameInput(@, oldKey, newKey)]
        s4 == Fetch(s3, Request("replace_data", updatedData, "rename"))
        s5 == updateDropdownSelectors(s4,
                  IF currentX = oldKey THEN newKey ELSE currentX,
                  IF currentY1 = oldKey THEN newKey ELSE currentY1,
                  IF currentY2 = oldKey THEN newKey ELSE currentY2)
    IN  IF replot /\ PlotThrows(s1)
        THEN [s1 EXCEPT !.lastOp = Op("headerBlur", "threw")]
        ELSE [updatePlot(s5) EXCEPT !.lastOp = Op("headerBlur", "committed")]

CommitRename(s, h, oldKey, newKey) ==
    LET x == Repoint(s.xAxis, oldKey, newKey)
        y1 == Repoint(s.yAxis1, oldKey, newKey)
        y2 == Repoint(s.yAxis2, oldKey, newKey)
        s1 == [s EXCEPT !.xAxis = x, !.yAxis1 = y1, !.yAxis2 = y2]
        replot == x.value = newKey \/ y1.value = newKey \/ y2.value = newKey
        s2 == IF replot THEN updatePlot(s1) ELSE s1
        currentX == s2.xAxis.value
        currentY1 == s2.yAxis1.value
        currentY2 == s2.yAxis2.value
        updatedData == RenamedData(s2.tableData, oldKey, newKey)
        s3 == [s2 EXCEPT
                  !.tableData = updatedData,
                  !.headers[h].col = newKey,
                  !.inputs = RenameInput(@, oldKey, newKey)]
        s4 == Fetch(s3, Request("replace_data", updatedData, "rename"))
        s5 == updateDropdownSelectors(s4,
                  IF currentX = oldKey THEN newKey ELSE currentX,
                  IF currentY1 = oldKey THEN newKey ELSE currentY1,
                  IF currentY2 = oldKey THEN newKey ELSE currentY2)
    IN  IF replot /\ PlotThrows(s1)
        THEN [s1 EXCEPT !.lastOp = Op("headerBlur", "threw")]
        ELSE [updatePlot(s5) EXCEPT !.lastOp = Op("headerBlur", "committed")]

\* A rename that only refuses "Date".
NameTakenOnlyDate(s, oldKey, newKey) == newKey = "Date"

\* newKey === 'Date' || (newKey !== oldKey && existingColumns.includes(newKey))
NameTaken(s, oldKey, newKey) ==
    newKey = "Date" \/ (newKey # oldKey /\ Includes(getColumnHeaders(s), newKey))

\* One run of the blur listener on header h.
HeaderBlurListener(s, h) ==
    LET newTitle == HeaderTitle(s.headers[h].text)
        oldKey == s.headers[h].col
    IN  IF newTitle = "" \/ oldKey = ""
        THEN IF oldKey # "" THEN RevertHeader(s, h, oldKey, "reverted")
             ELSE [s EXCEPT !.lastOp = Op("headerBlur", "reverted")]
        ELSE IF newTitle = oldKey
        THEN [s EXCEPT !.lastOp = Op("headerBlur", "unchanged")]
        ELSE IF NameTaken(s, oldKey, newTitle)
        THEN RevertHeader(s, h, oldKey, "reverted")
        ELSE CommitRename(s, h, oldKey, newTitle)

\* The blur event runs every listener setupColumnTitleListeners has attached
\* to the header, in the order they were attached.
RECURSIVE DispatchBlur(_, _, _)
DispatchBlur(s, h, k) ==
    IF k = 0 THEN s ELSE DispatchBlur(HeaderBlurListener(s, h), h, k - 1)

\* The user leaves header h showing the text typed.
headerBlur(s, h, typed) ==
    LET s0 == [s EXCEPT !.headers[h].text = typed]
        first == HeaderBlurListener(s0, h)
        all == DispatchBlur(s0, h, s.headers[h].n)
    IN  IF s.headers[h].n = 0
        THEN [s0 EXCEPT !.lastOp = Op("headerBlur", "no listener")]
        ELSE [all EXCEPT !.lastOp = first.lastOp]

-----------------------------------------------------------------------------
(* Cell edit: the blur listener of a body cell *)

\* this.textContent = row[columnName].toString(), which throws a TypeError
\* when the captured Row has no such key; the listener then ends at once.
RevertCell(s, r, c, outcome) ==
    LET row == s.body[r].row
        columnName == s.body[r].cells[c].col
    IN  IF Has(row, columnName)
        THEN [s EXCEPT !.body[r].cells[c].text = ValueToString(Get(row, columnName)),
                       !.lastOp = Op("cellBlur", outcome)]
        ELSE [s EXCEPT !.lastOp = Op("cellBlur", "threw")]

\* A request that carries the edited Row alone.
CellEditRequestOfRow(s, r, c, before, shownBefore) ==
    [Request("replace_data", <<s.tableData[s.body[r].index]>>, "cellEdit") EXCEPT
        !.rowIndex = s.body[r].index,
        !.columnName = s.body[r].cells[c].col,
        !.row = s.body[r].row,
        !.cell = <<r, c>>,
        !.attached = TRUE,
        !.before = before,
        !.shownBefore = shownBefore]

CellEditRequest(s, r, c, before, shownBefore) ==
    [Request("replace_data", s.tableData, "cellEdit") EXCEPT
        !.rowIndex = s.body[r].index,
        !.columnName = s.body[r].cells[c].col,
        !.row = s.body[r].row,
        !.cell = <<r, c>>,
        !.attached = TRUE,
        !.before = before,
        !.shownBefore = shownBefore]

\* An accept path that gives up the requests in flight for the one it issues.
AcceptCellSuperseding(s, r, c, value, shown, shownBefore) ==
    LET rowIndex == s.body[r].index
        columnName == s.body[r].cells[c].col
        updatedRow == Put(Spread(s.tableData[rowIndex]), columnName, value)
        s1 == [s EXCEPT !.body[r].cells[c].text = shown,
                        !.tableData[rowIndex] = updatedRow,
                        !.requests = <<>>]
        req == CellEditRequest(s1, r, c, s.tableData[rowIndex], shownBefore)
    IN  [Fetch(s1, req) EXCEPT !.lastOp = Op("cellBlur", "accepted")]

\* s is the page with the typed text in the cell; shownBefore was there before.
AcceptCell(s, r, c, value, shown, shownBefore) ==
    LET rowIndex == s.body[r].index
        columnName == s.body[r].cells[c].col
        updatedRow == Put(Spread(s.tableData[rowIndex]), columnName, value)
        s1 == [s EXCEPT !.body[r].cells[c].text = shown,
                        !.tableData[rowIndex] = updatedRow]
        req == CellEditRequest(s1, r, c, s.tableData[rowIndex], shownBefore)
    IN  [Fetch(s1, req) EXCEPT !.lastOp = Op("cellBlur", "accepted")]

\* The user leaves cell c of rendered row r showing the text typed.
cellBlur(s, r, c, typed) ==
    LET s0 == [s EXCEPT !.body[r].cells[c].text = typed]
        was == s.body[r].cells[c].text
        newValue == Trim(typed)
        columnName == s.body[r].cells[c].col
        rowIndex == s.body[r].index
        num == parseFloat(newValue)
    IN  IF rowIndex > Len(s.tableData)
        THEN RevertCell(s0, r, c, "invalid row index")
        ELSE IF columnName = "Date"
        THEN IF ~DateRegexTest(newValue)
             THEN RevertCell(s0, r, c, "rejected")
             ELSE AcceptCell(s0, r, c, Str(newValue), typed, was)
        ELSE IF num.nan
        THEN RevertCell(s0, r, c, "rejected")
        ELSE AcceptCell(s0, r, c, Num(num.num), NumberToString(num.num), was)

\* tableData[rowIndex] = x, which lengthens the array, leaving empty slots,
\* when rowIndex is beyond its end.
RECURSIVE Holes(_)
Holes(n) == IF n <= 0 THEN <<>> ELSE <<Hole>> \o Holes(n - 1)

SetAt(data, i, x) ==
    IF i <= Len(data) THEN [data EXCEPT ![i] = x]
    ELSE data \o Holes(i - Len(data) - 1) \o <<x>>

\* The catch handler of a cell edit.
RollbackCell(s, req) ==
    IF ~Has(req.row, req.columnName)
    THEN [s EXCEPT !.lastOp = Op("cellEditResponse", "threw")]
    ELSE LET shown == ValueToString(Get(req.row, req.columnName))
             s1 == IF req.attached
                   THEN [s EXCEPT !.body[req.cell[1]].cells[req.cell[2]].text = shown]
                   ELSE s
         IN  [s1 EXCEPT !.tableData = SetAt(@, req.rowIndex, Spread(req.row)),
                        !.lastOp = Op("cellEditResponse", "rolled back")]

-----------------------------------------------------------------------------
(* resetTable *)

\* A reset that always rebuilds the three default columns.
ResetColumnsDefault(data) == DefaultColumns

\* Object.keys(data[0] || { Date: '', 'Variable 1': '', 'Variable 2': '' })
ResetColumns(data) ==
    IF Len(data) > 0 /\ ~IsHole(data[1]) THEN Keys(data[1]) ELSE DefaultColumns

\* The continuation of resetTable once get_data has answered.
OnResetData(s, data) ==
    LET columns == ResetColumns(data)
        s1 == [s EXCEPT !.tableData = data]
        s2 == setupColumnTitleListeners(SetInputs(SetHeaders(s1, columns), columns))
        s3 == updatePlot(updateDropdownSelectors(renderTableRows(s2), "", "", ""))
    IN  [s3 EXCEPT !.columnCounter = Len(columns),
                   !.lastOp = Op("resetResponse", "rebuilt")]

resetTable(s, confirmed) ==
    IF confirmed
    THEN [Fetch(s, Request("reset_table", <<>>, "reset")) EXCEPT
             !.lastOp = Op("resetTable", "confirmed")]
    ELSE [s EXCEPT !.lastOp = Op("resetTable", "declined")]

-----------------------------------------------------------------------------
(* Import by drag and drop *)

UpperCase == <<"C", "S", "V", "X", "L", "T">>

LowerCase == <<"c", "s", "v", "x", "l", "t">>

ToLowerChar(c) ==
    IF \E i \in 1..Len(UpperCase) : UpperCase[i] = c
    THEN LowerCase[CHOOSE i \in 1..Len(UpperCase) : UpperCase[i] = c]
    ELSE c

ToLowerCase(t) == [i \in 1..Len(t) |-> ToLowerChar(t[i])]

\* name.match(/\.[^.]*$/)?.[0] || ''
RECURSIVE LastDotSuffix(_)
LastDotSuffix(t) ==
    IF t = <<>> THEN <<>>
    ELSE IF Includes(Tail(t), ".") THEN LastDotSuffix(Tail(t))
    ELSE IF Head(t) = "." THEN t
    ELSE LastDotSuffix(Tail(t))

AllowedExtensions ==
    {<<".", "c", "s", "v">>, <<".", "x", "l", "s", "x">>, <<".", "x", "l", "s">>}

\* A check that takes any file there is.
AnyFileAccepted(file) == file.present

FileAccepted(file) ==
    file.present /\ LastDotSuffix(ToLowerCase(file.name)) \in AllowedExtensions

\* The drop listener up to its fetch.
drop(s, file) ==
    IF ~FileAccepted(file)
    THEN [s EXCEPT !.lastOp = Op("drop", "alert")]
    ELSE [Fetch(s, Request("import_datafile", file.data, "import")) EXCEPT
             !.lastOp = Op("drop", "uploading")]

\* A listener that adds the rows of the response to those it holds.
OnImportedAppending(s, data) ==
    LET s1 == [s EXCEPT !.tableData = @ \o data]
        s2 == renderTableRows(updateInputRow(updateTableHeaders(s1)))
        s3 == updatePlot(updateDropdownSelectors(s2, "", "", ""))
    IN  [s3 EXCEPT !.lastOp = Op("importResponse", "imported")]

\* The drop listener after its fetch has answered with result.data.
OnImported(s, data) ==
    LET s1 == [s EXCEPT !.tableData = data]
        s2 == renderTableRows(updateInputRow(updateTableHeaders(s1)))
        s3 == updatePlot(updateDropdownSelectors(s2, "", "", ""))
    IN  [s3 EXCEPT !.lastOp = Op("importResponse", "imported")]

-----------------------------------------------------------------------------
(* Axis drop-downs *)

\* The user picks an option; the change listener is updatePlot.
selectAxis(s, axis, option) ==
    LET s1 == CASE axis = "x" -> [s EXCEPT !.xAxis.value = option]
                [] axis = "y1" -> [s EXCEPT !.yAxis1.value = option]
                [] axis = "y2" -> [s EXCEPT !.yAxis2.value = option]
    IN  [updatePlot(s1) EXCEPT !.lastOp = Op("selectAxis", axis)]

AxisOptions(s, axis) ==
    CASE axis = "x" -> s.xAxis.options
      [] axis = "y1" -> s.yAxis1.options
      [] axis = "y2" -> s.yAxis2.options

-----------------------------------------------------------------------------
(* The correlation matrix *)

\* A display that draws the heatmap of whatever list it is given.
displayHeatmapAlways(s, correlations) ==
    [s EXCEPT !.panel = "heatmap"]

\* What displayCorrelationMatrix leaves in the panel.
displayCorrelationMatrix(s, correlations) ==
    IF Len(correlations) = 0
    THEN [s EXCEPT !.panel = "no data"]
    ELSE [s EXCEPT !.panel = "heatmap"]

\* calculateAllCorrelations up to its first fetch.
calculateAllCorrelations(s) ==
    LET s1 == [s EXCEPT !.panel = "loading"]
    IN  [Fetch(s1, Request("correlations/calculate", <<>>, "calculate")) EXCEPT
            !.lastOp = Op("calculateAllCorrelations", "calculating")]

\* The catch of calculateAllCorrelations.
CorrelationError(s) ==
    [s EXCEPT !.panel = "error", !.lastOp = Op("correlationsResponse", "error")]

\* A correlation list the server may answer with when it has found some.
SomeCorrelations ==
    <<[variable1 |-> "Variable 1", variable2 |-> "Variable 2", correlation |-> 50]>>

-----------------------------------------------------------------------------
(* The correlations of the plotted columns *)

\* The three fetches of calculateCorrelations, in the order Promise.all is
\* given them: X with Y1, X with Y2, Y1 with Y2.
PairCallbacks == <<"pairXY1", "pairXY2", "pairY1Y2">>

PairIndex(cb) == CHOOSE k \in 1..3 : PairCallbacks[k] = cb

\* new Date(d[columnName]).getTime() for the Date column,
\* parseFloat(d[columnName]) for another one.
ExtractNumeric(row, columnName) ==
    LET v == Prop(row, columnName)
    IN  IF columnName = "Date" THEN DateTime(v)
        ELSE IF v.kind = "num" THEN [nan |-> FALSE, num |-> v.num]
        ELSE IF v.kind = "str" THEN parseFloat(v.str)
        ELSE NaN

\* isValid of extractNumericValues: map and some skip the empty slots.
ValuesValid(data, columnName) ==
    \A i \in 1..Len(data) :
       IsHole(data[i]) \/ ~ExtractNumeric(data[i], columnName).nan

\* What div#correlationResults shows (shown, and pairs when it lists the
\* three pairs), and how far Promise.all has got: one entry per fetch while
\* the promise is pending, none once it is settled.
ResultsPanel(shown, pairs, got) == [shown |-> shown, pairs |-> pairs, got |-> got]

\* A handler that asks the backend whatever the vectors hold.
calculateCorrelationsUnchecked(s) ==
    LET s1 == [s EXCEPT !.results =
                  ResultsPanel("calculating", <<>>, <<"pending", "pending", "pending">>)]
        s2 == Fetch(s1, Request("calculate_correlation", <<>>, PairCallbacks[1]))
        s3 == Fetch(s2, Request("calculate_correlation", <<>>, PairCallbacks[2]))
        s4 == Fetch(s3, Request("calculate_correlation", <<>>, PairCallbacks[3]))
    IN  [s4 EXCEPT !.lastOp = Op("calculateCorrelations", "calculating")]

\* calculateCorrelations up to its fetches.
calculateCorrelations(s) ==
    IF ~(/\ ValuesValid(s.tableData, s.xAxis.value)
         /\ ValuesValid(s.tableData, s.yAxis1.value)
         /\ ValuesValid(s.tableData, s.yAxis2.value))
    THEN [s EXCEPT !.results = ResultsPanel("invalid", <<>>, <<>>),
                   !.lastOp = Op("calculateCorrelations", "invalid")]
    ELSE LET s1 == [s EXCEPT !.results =
                       ResultsPanel("calculating", <<>>, <<"pending", "pending", "pending">>)]
             s2 == Fetch(s1, Request("calculate_correlation", <<>>, PairCallbacks[1]))
             s3 == Fetch(s2, Request("calculate_correlation", <<>>, PairCallbacks[2]))
             s4 == Fetch(s3, Request("calculate_correlation", <<>>, PairCallbacks[3]))
         IN  [s4 EXCEPT !.lastOp = Op("calculateCorrelations", "calculating")]

\* The fetch of pair k has ended.  A rejected fetch rejects Promise.all at
\* once and the catch writes its message; a response, whatever its status,
\* is kept until the three are there, and then each pair's line shows
\* result.error or result.interpretation.  Once the promise is settled the
\* remaining fetches end unheard.
OnPairAnswered(s, k, outcome) ==
    IF s.results.got = <<>>
    THEN [s EXCEPT !.lastOp = Op("pairResponse", "ignored")]
    ELSE IF outcome = "networkError"
    THEN [s EXCEPT !.results = ResultsPanel("failed", <<>>, <<>>),
                   !.lastOp = Op("pairResponse", "failed")]
    ELSE LET got == [s.results.got EXCEPT
                        ![k] = IF outcome = "ok" THEN "interpretation" ELSE "error"]
         IN  IF \E j \in 1..3 : got[j] = "pending"
             THEN [s EXCEPT !.results.got = got,
                            !.lastOp = Op("pairResponse", "waiting")]
             ELSE [s EXCEPT !.results = ResultsPanel("pairs", got, <<>>),
                            !.lastOp = Op("pairResponse", "shown")]

-----------------------------------------------------------------------------
(* Responses *)

\* How a fetch can end: a success status, an error status with an error
\* payload, or a rejected promise.
Outcomes(req) ==
    IF req.url \in {"get_data", "reset_table", "clear_data"} THEN {"ok", "networkError"}
    ELSE IF req.url = "correlations/all" THEN {"ok", "okSome", "httpError", "networkError"}
    ELSE {"ok", "httpError", "networkError"}

\* The continuation of request req when its fetch ends with outcome; stored
\* is what get_data returns.
Continue(s, req, outcome, stored) ==
    CASE req.cb = "cellEdit" ->
            IF outcome = "ok" /\ ~PlotThrows(s)
            THEN [updatePlot(s) EXCEPT !.lastOp = Op("cellEditResponse", "saved")]
            ELSE RollbackCell(s, req)
      [] req.cb = "reset" ->
            IF outcome = "networkError"
            THEN [s EXCEPT !.lastOp = Op("resetResponse", "logged")]
            ELSE [Fetch(s, Request("get_data", <<>>, "resetData")) EXCEPT
                     !.lastOp = Op("resetResponse", "refetching")]
      [] req.cb = "resetData" ->
            IF outcome = "ok" THEN OnResetData(s, stored)
            ELSE [s EXCEPT !.lastOp = Op("resetResponse", "logged")]
      [] req.cb = "import" ->
            IF outcome = "ok" THEN OnImported(s, req.body)
            ELSE [s EXCEPT !.lastOp = Op("importResponse", "alert")]
      [] req.cb = "clear" ->
            IF outcome = "networkError"
            THEN [s EXCEPT !.lastOp = Op("clearResponse", "unhandled")]
            ELSE [Fetch(s, Request("get_data", <<>>, "clearData")) EXCEPT
                     !.lastOp = Op("clearResponse", "refetching")]
      [] req.cb = "clearData" ->
            IF outcome = "ok" THEN OnClearData(s, stored)
            ELSE [s EXCEPT !.lastOp = Op("clearResponse", "unhandled")]
      [] req.cb = "addRow" -> [s EXCEPT !.lastOp = Op("addRowResponse", "ignored")]
      [] req.cb = "calculate" ->
            IF outcome = "ok"
            THEN [Fetch(s, Request("correlations/all", <<>>, "correlations")) EXCEPT
                     !.lastOp = Op("correlationsResponse", "fetching")]
            ELSE CorrelationError(s)
      [] req.cb = "correlations" ->
            IF outcome = "ok"
            THEN [displayCorrelationMatrix(s, <<>>) EXCEPT
                     !.lastOp = Op("correlationsResponse", "shown")]
            ELSE IF outcome = "okSome"
            THEN [displayCorrelationMatrix(s, SomeCorrelations) EXCEPT
                     !.lastOp = Op("correlationsResponse", "shown")]
            ELSE CorrelationError(s)
      [] Includes(PairCallbacks, req.cb) ->
            OnPairAnswered(s, PairIndex(req.cb), outcome)
      [] OTHER -> [s EXCEPT !.lastOp = Op(req.cb \o "Response", "logged")]

\* A page that takes the appended Row back when its add_row request fails.
respondUndoingAddRow(s, i, outcome) ==
    LET req == s.requests[i]
        stored == IF outcome = "ok" THEN BackendAfter(s.backend, req) ELSE s.backend
        s1 == [s EXCEPT !.requests = RemoveAt(@, i), !.backend = stored]
        s2 == IF outcome # "ok" /\ req.cb = "addRow" /\ s.tableData # <<>>
              THEN renderTableRows([s1 EXCEPT
                       !.tableData = SubSeq(@, 1, Len(@) - 1)])
              ELSE s1
    IN  Continue(s2, req, outcome, stored)

respond(s, i, outcome) ==
    LET req == s.requests[i]
        stored == IF outcome = "ok" THEN BackendAfter(s.backend, req) ELSE s.backend
        s1 == [s EXCEPT !.requests = RemoveAt(@, i), !.backend = stored]
    IN  Continue(s1, req, outcome, stored)

-----------------------------------------------------------------------------
(* The inputs of the model *)

Day1 == <<"2", "0", "2", "4", "-", "0", "1", "-", "0", "1">>

Day2 == <<"2", "0", "2", "4", "-", "0", "3", "-", "0", "1">>

Day3 == <<"2", "0", "2", "4", "-", "0", "2", "-", "0", "1">>

NoSuchDay == <<"2", "0", "2", "4", "-", "1", "3", "-", "4", "0">>

Entry(key, v) == [k |-> key, v |-> v]

SavedRows ==
    << <<Entry("Date", Str(Day2)), Entry("Variable 1", Num(100))>> >>

TwoSavedRows ==
    << <<Entry("Date", Str(Day2)), Entry("Variable 1", Num(100))>>,
       <<Entry("Date", Str(Day1)), Entry("Variable 1", Num(200))>> >>

\* What the server may hold when the page is opened.
InitialDatasets == {<<>>, SavedRows}

ImportedRows ==
    << <<Entry("Date", Str(Day1)), Entry("Temp", Num(2000)), Entry("Humidity", Num(5000))>> >>

DroppedFiles ==
    {[present |-> TRUE, name |-> <<"d", ".", "C", "S", "V">>, data |-> ImportedRows],
     [present |-> TRUE, name |-> <<"d", ".", "X", "l", "s", "x">>, data |-> ImportedRows],
     [present |-> TRUE, name |-> <<"d", ".", "c", "s", "v", ".", "t", "x", "t">>, data |-> ImportedRows],
     [present |-> TRUE, name |-> <<"c", "s", "v">>, data |-> ImportedRows],
     [present |-> TRUE, name |-> <<"d", ".", "x", "l", "s", "m">>, data |-> ImportedRows],
     [present |-> FALSE, name |-> <<>>, data |-> <<>>]}

\* Texts a user leaves in a body cell of the Date column, or of another one.
CellTexts(col) ==
    IF col = "Date"
    THEN {<<"a", "b", "c">>, NoSuchDay}
    ELSE {<<"a", "b", "c">>, <<" ", "3", ".", "5">>, <<"3", ".", "5", "a", "b", "c">>}

\* Rows of a saved table with the columns Date and "Variable 1", and the
\* tables of up to MaxRows of them, in every order.
SortRows ==
    {<<Entry("Date", Str(Day1)), Entry("Variable 1", Num(100))>>,
     <<Entry("Date", Str(Day1)), Entry("Variable 1", Num(200))>>,
     <<Entry("Date", Str(Day2)), Entry("Variable 1", Num(100))>>,
     <<Entry("Date", Str(Day3)), Entry("Variable 1", Num(200))>>,
     <<Entry("Date", Str(NoSuchDay)), Entry("Variable 1", Num(100))>>}

SortDatasets == UNION {[1..n -> SortRows] : n \in 0..MaxRows}

\* A saved table of three columns whose Rows are in no order of any column and
\* one of whose dates is no date.
UnsortedRows ==
    << <<Entry("Date", Str(Day2)), Entry("Variable 1", Num(100)), Entry("Variable 2", Num(7))>>,
       <<Entry("Date", Str(NoSuchDay)), Entry("Variable 1", Num(300)), Entry("Variable 2", Num(5))>>,
       <<Entry("Date", Str(Day1)), Entry("Variable 1", Num(200)), Entry("Variable 2", Num(6))>> >>

\* Saved tables for the plot.
PlotDatasets == {<<>>, SavedRows, TwoSavedRows, UnsortedRows}

\* Texts a user leaves in the Date input and in the number inputs before
\* clicking "add row".
AddRowDates == {Day1}

AddRowValues == {<<>>, <<"2">>}

\* Texts a user leaves in a header cell.
HeaderTexts ==
    {<<" ">>, <<"Date">>, <<"Variable 2">>, <<" ", "Variable 3", " ">>}

-----------------------------------------------------------------------------
(* The state machine *)

Init ==
    /\ loaded = FALSE
    /\ tableData = <<>>
    /\ columnCounter = 0
    /\ headers = <<>>
    /\ inputs = <<>>
    /\ xAxis = NoSelect
    /\ yAxis1 = NoSelect
    /\ yAxis2 = NoSelect
    /\ body = <<>>
    /\ chart = NoChart
    /\ panel = "empty"
    /\ results = NoResults
    /\ requests = <<>>
    /\ backend \in InitialDatasets
    /\ lastOp = Op("init", "ok")
    /\ gestures = 0
    /\ device = [zone |-> 0, day |-> 1, hour |-> 12]

Load ==
    /\ ~loaded
    /\ lastOp.name = "init"
    /\ \E auth \in {"ok", "networkError"} :
          \E got \in {"ok", "httpError", "networkError"} :
             Commit(pageLoad(Cur, auth, got, backend))
    /\ UNCHANGED gestures

AddRow ==
    /\ Len(requests) < MaxPending
    /\ \E dateText \in AddRowDates \cup {InputValue(inputs, "Date")} :
          \E valueText \in AddRowValues :
             Gesture(addRow([Cur EXCEPT !.inputs = FilledInputs(@, dateText, valueText)]))

ClearAll ==
    /\ Len(requests) < MaxPending
    /\ \E confirmed \in BOOLEAN : Gesture(clearAllData(Cur, confirmed))

Correlate ==
    /\ Len(requests) < MaxPending
    /\ Gesture(calculateAllCorrelations(Cur))

\* A click on the button of the plotted correlations, once the fetches of
\* the click before it have ended.
Calculate ==
    /\ Len(requests) < MaxPending
    /\ \A i \in 1..Len(requests) : ~Includes(PairCallbacks, requests[i].cb)
    /\ Gesture(calculateCorrelations(Cur))

AddColumn ==
    /\ Len(headers) < MaxCols
    /\ Len(requests) < MaxPending
    /\ Gesture(addColumn(Cur))

HeaderBlur ==
    /\ Len(requests) < MaxPending
    /\ \E h \in 1..Len(headers) :
         \E typed \in (IF headers[h].editable THEN HeaderTexts ELSE {}) \cup {headers[h].text} :
            Gesture(headerBlur(Cur, h, typed))

CellBlur ==
    /\ Len(requests) < MaxPending
    /\ \E r \in 1..Len(body) :
         \E c \in 1..Len(body[r].cells) :
            \E typed \in CellTexts(body[r].cells[c].col) \cup {body[r].cells[c].text} :
               Gesture(cellBlur(Cur, r, c, typed))

ResetTable ==
    /\ Len(requests) < MaxPending
    /\ \E confirmed \in BOOLEAN : Gesture(resetTable(Cur, confirmed))

Drop ==
    /\ Len(requests) < MaxPending
    /\ \E file \in DroppedFiles : Gesture(drop(Cur, file))

SelectAxis ==
    \E axis \in {"x", "y1", "y2"} :
         \E i \in 1..Len(AxisOptions(Cur, axis)) :
            Gesture(selectAxis(Cur, axis, AxisOptions(Cur, axis)[i]))

Respond ==
    \E i \in 1..Len(requests) :
       \E outcome \in Outcomes(requests[i]) :
          /\ Commit(respond(Cur, i, outcome))
          /\ UNCHANGED gestures

Next ==
    \/ Load
    \/ AddRow
    \/ ClearAll
    \/ Correlate
    \/ Calculate
    \/ AddColumn
    \/ HeaderBlur
    \/ CellBlur
    \/ ResetTable
    \/ Drop
    \/ SelectAxis
    \/ Respond

Spec == Init /\ [][Next]_vars

\* The page under addColumn and column renames alone.
NextColumns ==
    \/ Load
    \/ AddColumn
    \/ HeaderBlur
    \/ Respond

SpecColumns == Init /\ [][NextColumns]_vars

\* The page under cell edits alone.
NextEdits ==
    \/ Load
    \/ CellBlur
    \/ Respond

SpecEdits == Init /\ [][NextEdits]_vars

\* The page under the operations that replace the whole table.
NextReplace ==
    \/ Load
    \/ ClearAll
    \/ ResetTable
    \/ Drop
    \/ Respond

SpecReplace == Init /\ [][NextReplace]_vars

\* The page under the operations that write column identifiers: into the
\* headers, the inputs, the selects and the keys of the Rows.
NextRegistry ==
    \/ Load
    \/ AddColumn
    \/ HeaderBlur
    \/ CellBlur
    \/ ResetTable
    \/ Drop
    \/ Respond

SpecRegistry == Init /\ [][NextRegistry]_vars

\* The page opened on a saved table of two Rows, under cell edits.
TwoRowsInit ==
    /\ loaded = FALSE
    /\ tableData = <<>>
    /\ columnCounter = 0
    /\ headers = <<>>
    /\ inputs = <<>>
    /\ xAxis = NoSelect
    /\ yAxis1 = NoSelect
    /\ yAxis2 = NoSelect
    /\ body = <<>>
    /\ chart = NoChart
    /\ panel = "empty"
    /\ results = NoResults
    /\ requests = <<>>
    /\ backend = TwoSavedRows
    /\ lastOp = Op("init", "ok")
    /\ gestures = 0
    /\ device = [zone |-> 0, day |-> 1, hour |-> 12]

SpecTwoRows == TwoRowsInit /\ [][NextEdits]_vars

\* The page opened on a saved table of two Rows, under added and renamed
\* columns.
SpecTwoRowColumns == TwoRowsInit /\ [][NextColumns]_vars

\* The page under its two additions, of a Row and of a column.
NextAdds ==
    \/ Load
    \/ AddRow
    \/ AddColumn
    \/ Respond

SpecAdds == Init /\ [][NextAdds]_vars

\* The page under addRow and the correlation matrix.
NextCorrelations ==
    \/ Load
    \/ AddRow
    \/ Correlate
    \/ Respond

SpecCorrelations == Init /\ [][NextCorrelations]_vars

\* The page when every fetch succeeds and the server serves the requests in
\* the order the page issued them.
LoadOk ==
    /\ ~loaded
    /\ lastOp.name = "init"
    /\ Commit(pageLoad(Cur, "ok", "ok", backend))
    /\ UNCHANGED gestures

RespondInOrder ==
    /\ requests # <<>>
    /\ Commit(respond(Cur, 1, "ok"))
    /\ UNCHANGED gestures

NextOrdered ==
    \/ LoadOk
    \/ AddRow
    \/ ClearAll
    \/ AddColumn
    \/ HeaderBlur
    \/ CellBlur
    \/ RespondInOrder

SpecOrdered == Init /\ [][NextOrdered]_vars

\* The page opened on a saved table, and its axis selects: what updatePlot
\* draws from a table.
SortInit ==
    /\ loaded = FALSE
    /\ tableData = <<>>
    /\ columnCounter = 0
    /\ headers = <<>>
    /\ inputs = <<>>
    /\ xAxis = NoSelect
    /\ yAxis1 = NoSelect
    /\ yAxis2 = NoSelect
    /\ body = <<>>
    /\ chart = NoChart
    /\ panel = "empty"
    /\ results = NoResults
    /\ requests = <<>>
    /\ backend \in SortDatasets
    /\ lastOp = Op("init", "ok")
    /\ gestures = 0
    /\ device = [zone |-> 0, day |-> 1, hour |-> 12]

NextSort ==
    \/ Load
    \/ SelectAxis

SpecSort == SortInit /\ [][NextSort]_vars

\* The page under added and renamed columns and changes of the axis
\* selections.
NextAxes ==
    \/ Load
    \/ AddColumn
    \/ HeaderBlur
    \/ SelectAxis
    \/ Respond

SpecAxes == Init /\ [][NextAxes]_vars

\* The correlations of the plotted columns of a saved table, under changes of
\* the axis selections.
NextPlotted ==
    \/ Load
    \/ SelectAxis
    \/ Calculate
    \/ Respond

\* The plot of a saved table under changes of the axis selections.
PlotInit ==
    /\ loaded = FALSE
    /\ tableData = <<>>
    /\ columnCounter = 0
    /\ headers = <<>>
    /\ inputs = <<>>
    /\ xAxis = NoSelect
    /\ yAxis1 = NoSelect
    /\ yAxis2 = NoSelect
    /\ body = <<>>
    /\ chart = NoChart
    /\ panel = "empty"
    /\ results = NoResults
    /\ requests = <<>>
    /\ backend \in PlotDatasets
    /\ lastOp = Op("init", "ok")
    /\ gestures = 0
    /\ device = [zone |-> 0, day |-> 1, hour |-> 12]

SpecPlot == PlotInit /\ [][NextSort]_vars

SpecPlotted == PlotInit /\ [][NextPlotted]_vars

\* A device in every zone, from UTC-12 to UTC+14, at every hour of the tenth
\* of February.
Devices ==
    {[zone |-> zone, day |-> 10, hour |-> hour] : zone \in (0 - 12)..14, hour \in 0..23}

\* The page opened on an empty table, on a device in any zone at any hour.
ClockInit ==
    /\ loaded = FALSE
    /\ tableData = <<>>
    /\ columnCounter = 0
    /\ headers = <<>>
    /\ inputs = <<>>
    /\ xAxis = NoSelect
    /\ yAxis1 = NoSelect
    /\ yAxis2 = NoSelect
    /\ body = <<>>
    /\ chart = NoChart
    /\ panel = "empty"
    /\ results = NoResults
    /\ requests = <<>>
    /\ backend = <<>>
    /\ lastOp = Op("init", "ok")
    /\ gestures = 0
    /\ device \in Devices

\* The page under addRow alone.
NextClock ==
    \/ Load
    \/ AddRow

SpecClock == ClockInit /\ [][NextClock]_vars

-----------------------------------------------------------------------------
(* Properties *)

Registry == getColumnHeaders(Cur)

RegistrySet == {Registry[i] : i \in 1..Len(Registry)}

Rows == {i \in 1..Len(tableData) : ~IsHole(tableData[i])}

Unique(seq) == \A i, j \in 1..Len(seq) : seq[i] = seq[j] => i = j

\* The step taken is the one that leaves the page as s.
StepTo(s) == Cur' = s

\* C1. Column identity: after any sequence of addColumn and rename
\* operations on a loaded table, every Row has exactly the key set that
\* getColumnHeaders returns, and "Date" is the first identifier of it.
C1_ColumnIdentity ==
    loaded =>
        /\ \A i \in Rows : KeySet(tableData[i]) = RegistrySet
        /\ Registry[1] = "Date"

\* A committed rename of header h by the text typed: the trimmed text is not
\* empty, not the header's identifier, not "Date" and not a column already.
RenameCommits(h, typed) ==
    LET B == HeaderTitle(typed)
    IN  /\ headers[h].n > 0
        /\ B # ""
        /\ B # headers[h].col
        /\ B # "Date"
        /\ ~Includes(Registry, B)
        /\ StepTo(headerBlur(Cur, h, typed))

\* C2. Rename atomicity (rows): a committed rename of A to B leaves every Row
\* without key A and with key B holding the value A held; every other key and
\* value, the number of Rows and their order are unchanged.
C2_RenameRows ==
    [][\A h \in 1..Len(headers) : \A typed \in HeaderTexts :
          RenameCommits(h, typed) =>
             LET A == headers[h].col
                 B == HeaderTitle(typed)
             IN  /\ Len(tableData') = Len(tableData)
                 /\ \A i \in Rows :
                       LET old == tableData[i]
                           new == tableData'[i]
                       IN  /\ Has(old, A)
                           /\ KeySet(new) = (KeySet(old) \ {A}) \cup {B}
                           /\ Get(new, B) = Get(old, A)
                           /\ \A key \in KeySet(old) \ {A, B} :
                                 Get(new, key) = Get(old, key)]_vars

AxisRepointed(before, after, A, B) ==
    after.value = IF before.value = A THEN B ELSE before.value

\* C3. Rename atomicity (axis selections): after a committed rename of A to B
\* each of the X, Y1 and Y2 selections that was A is B, and each of the others
\* is what it was.
C3_RenameAxes ==
    [][\A h \in 1..Len(headers) : \A typed \in HeaderTexts :
          RenameCommits(h, typed) =>
             LET A == headers[h].col
                 B == HeaderTitle(typed)
             IN  /\ AxisRepointed(xAxis, xAxis', A, B)
                 /\ AxisRepointed(yAxis1, yAxis1', A, B)
                 /\ AxisRepointed(yAxis2, yAxis2', A, B)]_vars

HeaderColumns(hs) == [i \in 1..Len(hs) |-> hs[i].col]

\* The texts a user can leave in header h: one typed, or the one shown.
TypedInto(h) == (IF headers[h].editable THEN HeaderTexts ELSE {}) \cup {headers[h].text}

\* C4. Rename rejection: a header blur whose trimmed text is empty, is the
\* header's own identifier, is "Date" or is the identifier of another column
\* leaves the Dataset, the header identifiers, the input ids and the three
\* axis selections unchanged, issues no request, and the header shows the
\* old identifier (as rendered: blanks around the text do not show).
C4_RenameRejection ==
    [][lastOp'.name = "headerBlur" =>
         \A h \in 1..Len(headers) : \A typed \in TypedInto(h) :
            LET A == headers[h].col
                B == HeaderTitle(typed)
            IN  (/\ headers[h].n > 0
                 /\ \/ B = ""
                    \/ B = A
                    \/ B = "Date"
                    \/ \E j \in 1..Len(headers) : j # h /\ headers[j].col = B
                 /\ StepTo(headerBlur(Cur, h, typed)))
                => /\ tableData' = tableData
                   /\ HeaderColumns(headers') = HeaderColumns(headers)
                   /\ inputs' = inputs
                   /\ xAxis' = xAxis /\ yAxis1' = yAxis1 /\ yAxis2' = yAxis2
                   /\ requests' = requests
                   /\ HeaderTitle(headers'[h].text) = A]_vars

\* A rejected rename has been handled on a table that holds Rows.
C4_Witness ==
    /\ lastOp = Op("headerBlur", "reverted")
    /\ tableData # <<>>
    /\ \E h \in 1..Len(headers) : headers[h].editable /\ headers[h].text = <<headers[h].col>>

\* The texts a user can leave in cell c of rendered row r.
TypedIntoCell(r, c) == CellTexts(body[r].cells[c].col) \cup {body[r].cells[c].text}

\* The number of characters of t that make up a decimal literal at its start.
LiteralLength(t) ==
    LET start == IF t # <<>> /\ t[1] \in {"-", "+"} THEN 2 ELSE 1
        ni == DigitRun(t, start)
        dot == start + ni
        nf == IF dot <= Len(t) /\ t[dot] = "." THEN DigitRun(t, dot + 1) ELSE 0
    IN  IF ni = 0 /\ nf = 0 THEN 0
        ELSE IF dot <= Len(t) /\ t[dot] = "." THEN dot + nf
        ELSE dot - 1

\* The whole of t is a decimal literal.
IsNumberText(t) == t # <<>> /\ LiteralLength(t) = Len(t)

\* C5. Cell edit validation (numeric columns): text committed to a non-Date
\* cell is accepted only if the whole text is a number, and then the Row
\* Store holds that number; any other text leaves the Row Store unchanged.
C5_NumberValidation ==
    [][\A r \in 1..Len(body) : \A c \in 1..Len(body[r].cells) :
          \A typed \in TypedIntoCell(r, c) :
             LET col == body[r].cells[c].col
                 idx == body[r].index
                 t == Trim(typed)
             IN  (col # "Date" /\ StepTo(cellBlur(Cur, r, c, typed)))
                 => IF IsNumberText(t)
                    THEN /\ Has(tableData'[idx], col)
                         /\ Get(tableData'[idx], col) = Num(parseFloat(t).num)
                    ELSE tableData' = tableData]_vars

\* C6, as the spec states it: committing "2024-13-40" to a Date cell is
\* rejected, the Row's Date is unchanged and no request is issued.
C6_NoSuchDayRejected ==
    [][\A r \in 1..Len(body) : \A c \in 1..Len(body[r].cells) :
          (body[r].cells[c].col = "Date" /\ StepTo(cellBlur(Cur, r, c, NoSuchDay)))
          => /\ tableData' = tableData
             /\ requests' = requests]_vars

\* Four digits, a hyphen, two digits, a hyphen, two digits, and no more.
IsDateShaped(t) ==
    /\ Len(t) = 10
    /\ DigitRun(t, 1) = 4
    /\ t[5] = "-"
    /\ DigitRun(t, 6) = 2
    /\ t[8] = "-"
    /\ DigitRun(t, 9) = 2

\* C6, amended: a Date cell edit is accepted exactly when the trimmed text
\* has the shape dddd-dd-dd, and then the Row's Date becomes that text and one
\* replace_data request carrying the whole Dataset is issued; "2024-13-40" has
\* that shape and is accepted; any other text leaves the Dataset unchanged and
\* issues no request.
C6_DateShapeDecides ==
    [][lastOp'.name = "cellBlur" =>
         \A r \in 1..Len(body) : \A c \in 1..Len(body[r].cells) :
            \A typed \in TypedIntoCell(r, c) \cup {NoSuchDay} :
               LET idx == body[r].index
                   t == Trim(typed)
               IN  (body[r].cells[c].col = "Date" /\ StepTo(cellBlur(Cur, r, c, typed)))
                   => IF IsDateShaped(t) \/ typed = NoSuchDay
                      THEN /\ Get(tableData'[idx], "Date") = Str(t)
                           /\ \A i \in 1..Len(tableData) :
                                 i # idx => tableData'[i] = tableData[i]
                           /\ Len(requests') = Len(requests) + 1
                           /\ requests'[Len(requests')].url = "replace_data"
                           /\ requests'[Len(requests')].body = tableData'
                      ELSE /\ tableData' = tableData
                           /\ requests' = requests]_vars

\* The edit of a Date cell to "2024-13-40" has been accepted.
C6_Witness ==
    /\ lastOp = Op("cellBlur", "accepted")
    /\ \E i \in Rows : Has(tableData[i], "Date") /\ Get(tableData[i], "Date") = Str(NoSuchDay)
    /\ requests # <<>>
    /\ requests[Len(requests)].columnName = "Date"

\* C7. Import replaces structure: after a successful import the header
\* cells, the input cells, the drop-down options and every Row carry exactly
\* the columns of the imported rows.
C7_ImportReplacesStructure ==
    [][\A i \in 1..Len(requests) :
          (requests[i].cb = "import" /\ requests[i].body # <<>>
              /\ StepTo(respond(Cur, i, "ok")))
          => LET C == KeySet(requests[i].body[1])
             IN  /\ {headers'[j].col : j \in 1..Len(headers')} = C
                 /\ {inputs'[j].id : j \in 1..Len(inputs')} = C
                 /\ {xAxis'.options[j] : j \in 1..Len(xAxis'.options)} = C
                 /\ {yAxis1'.options[j] : j \in 1..Len(yAxis1'.options)} = C \ {"Date"}
                 /\ {yAxis2'.options[j] : j \in 1..Len(yAxis2'.options)} = C \ {"Date"}
                 /\ \A j \in 1..Len(tableData') : KeySet(tableData'[j]) = C]_vars

\* C8. Cell edit rollback: when the replace_data call of an accepted cell
\* edit fails, the edited Row and the text of the edited cell are again what
\* they were immediately before that edit.
C8_RollbackRestores ==
    [][\A i \in 1..Len(requests) : \A outcome \in {"httpError", "networkError"} :
          (requests[i].cb = "cellEdit" /\ StepTo(respond(Cur, i, outcome)))
          => LET req == requests[i]
             IN  /\ req.rowIndex <= Len(tableData')
                 /\ tableData'[req.rowIndex] = req.before
                 /\ req.attached =>
                       body'[req.cell[1]].cells[req.cell[2]].text = req.shownBefore]_vars

\* The text fails the validation of the column.
FailsValidation(col, t) ==
    IF col = "Date" THEN ~DateRegexTest(t) ELSE parseFloat(t).nan

\* C9. Cell edit rejection: when a cell edit fails validation the Row Store
\* is not mutated, no request is issued, and the cell shows the value the Row
\* Store holds for that Row and column.
C9_RejectionShowsStored ==
    [][\A r \in 1..Len(body) : \A c \in 1..Len(body[r].cells) :
          \A typed \in TypedIntoCell(r, c) :
             LET col == body[r].cells[c].col
                 idx == body[r].index
             IN  (/\ FailsValidation(col, Trim(typed))
                  /\ idx <= Len(tableData)
                  /\ Has(tableData[idx], col)
                  /\ StepTo(cellBlur(Cur, r, c, typed)))
                 => /\ tableData' = tableData
                    /\ requests' = requests
                    /\ body'[r].cells[c].text = ValueToString(Get(tableData[idx], col))]_vars

\* C10. Fresh column identifier: the identifier addColumn produces,
\* "Variable n" for the counter n, is not in the Column Registry when it is
\* produced, and the registry holds no identifier twice afterwards.
C10_FreshIdentifier ==
    [][StepTo(addColumn(Cur)) =>
          /\ ~Includes(Registry, NewColumnKey(columnCounter))
          /\ Unique(HeaderColumns(headers'))]_vars

\* The step that led here completed one of the operations after which the
\* chart is to be drawn again.
C11_Completed ==
    \/ lastOp \in {Op("load", "ok"), Op("load", "auth error logged"),
                   Op("addRow", "ok"), Op("cellEditResponse", "saved"),
                   Op("clearResponse", "cleared"), Op("resetResponse", "rebuilt"),
                   Op("importResponse", "imported"), Op("addColumn", "ok"),
                   Op("headerBlur", "committed")}
    \/ lastOp.name = "selectAxis"

\* C11. Plot follows state: after initial load, addRow, a cell edit the
\* backend confirmed, clearAll, resetTable, import, addColumn, a column rename
\* and an axis change, the chart is the projection of the current Dataset
\* onto the current X/Y1/Y2 selections.
C11_PlotFollowsState ==
    C11_Completed =>
        chart = Traces(tableData, xAxis.value, yAxis1.value, yAxis2.value)

\* The value is the text of a calendar date.
C12_IsDate(v) == v.kind = "str" /\ CalendarDateTest(v.str)

\* Date a is an earlier day than date b: by year, then month, then day.
C12_Earlier(a, b) ==
    LET ya == DigitsValue(a.str, 1, 4)
        yb == DigitsValue(b.str, 1, 4)
        ma == DigitsValue(a.str, 6, 2)
        mb == DigitsValue(b.str, 6, 2)
        da == DigitsValue(a.str, 9, 2)
        db == DigitsValue(b.str, 9, 2)
    IN  /\ C12_IsDate(a)
        /\ C12_IsDate(b)
        /\ \/ ya < yb
           \/ ya = yb /\ ma < mb
           \/ ya = yb /\ ma = mb /\ da < db

\* The chart holds the Rows of the Dataset, each once and whole, with no
\* plotted X value before one it should follow.
C12_Ordered ==
    /\ \E p \in [1..Len(chart.x) -> Rows] :
          /\ \A i, j \in 1..Len(chart.x) : p[i] = p[j] => i = j
          /\ \A r \in Rows : \E i \in 1..Len(chart.x) : p[i] = r
          /\ \A i \in 1..Len(chart.x) :
                /\ chart.x[i] = Prop(tableData[p[i]], chart.names[1])
                /\ chart.y1[i] = Prop(tableData[p[i]], chart.names[2])
                /\ chart.y2[i] = Prop(tableData[p[i]], chart.names[3])
    /\ \A i, j \in 1..Len(chart.x) :
          i < j =>
             IF chart.names[1] = "Date"
             THEN ~C12_Earlier(chart.x[j], chart.x[i])
             ELSE (chart.x[i].kind = "num" /\ chart.x[j].kind = "num")
                     => chart.x[i].num <= chart.x[j].num

\* The chart was drawn from the Dataset and the selections as they are.
C12_Drawn ==
    /\ loaded
    /\ lastOp.name \in {"load", "selectAxis"}
    /\ chart.names = <<xAxis.value, yAxis1.value, yAxis2.value>>

C13_Defaulted ==
    lastOp \in {Op("load", "ok"), Op("load", "auth error logged"),
                Op("addColumn", "ok"), Op("resetResponse", "rebuilt"),
                Op("importResponse", "imported")}

\* The non-Date columns other than the resolved Y1.
C13_Others == SelectSeq(NonDate(Registry), LAMBDA col : col # yAxis1.value)

\* C13. Axis defaults: updateDropdownSelectors with no preferred values
\* resolves X to "Date", Y1 to the first non-Date column and Y2 to the first
\* non-Date column different from the resolved Y1; Y2 equals Y1 only when
\* exactly one non-Date column exists.
C13_AxisDefaults ==
    C13_Defaulted =>
        /\ xAxis.value = "Date"
        /\ NonDate(Registry) # <<>>
        /\ yAxis1.value = NonDate(Registry)[1]
        /\ C13_Others # <<>> => yAxis2.value = C13_Others[1]
        /\ yAxis2.value = yAxis1.value => Len(NonDate(Registry)) = 1

\* The same on a Column Registry that holds no identifier twice.
C13_AxisDefaultsOfUnique == Unique(Registry) => C13_AxisDefaults

\* C14. Empty-dataset correlation: with zero Rows, when the backend has
\* answered the compute call successfully and answers the fetch call
\* successfully with an empty correlation list, calculateAllCorrelations
\* leaves the matrix panel in the "no data" state: no heatmap, no error.
C14_EmptyCorrelation ==
    [][lastOp'.name = "correlationsResponse" =>
          \A i \in 1..Len(requests) :
             (/\ requests[i].cb = "correlations"
              /\ Rows = {}
              /\ StepTo(respond(Cur, i, "ok")))
             => panel' = "no data"]_vars

\* The matrix was asked for on a page without Rows, both calls were answered,
\* and the panel says that there is nothing to show.
C14_Witness ==
    /\ loaded
    /\ Rows = {}
    /\ lastOp = Op("correlationsResponse", "shown")
    /\ panel = "no data"

\* C15. Clean initial load: when auth-status and get_data are answered
\* successfully, the DOMContentLoaded handler runs to its end and logs no
\* error: the page holds the returned Dataset, a header and an input for
\* each column, a body row for each Row, the axis selects filled from the
\* columns, and the plot of the Dataset; for an empty and a non-empty
\* returned Dataset alike.
C15_CleanLoad ==
    [][lastOp'.name = "load" =>
          (StepTo(pageLoad(Cur, "ok", "ok", backend)) =>
              /\ loaded'
              /\ lastOp' = Op("load", "ok")
              /\ tableData' = backend
              /\ Len(headers') >= 2
              /\ headers'[1].col = "Date"
              /\ backend # <<>> => {headers'[i].col : i \in 1..Len(headers')} = KeySet(backend[1])
              /\ [i \in 1..Len(inputs') |-> inputs'[i].id] = HeaderColumns(headers')
              /\ [i \in 1..Len(body') |-> body'[i].row] = backend
              /\ xAxis'.options = HeaderColumns(headers')
              /\ yAxis1'.options = NonDate(HeaderColumns(headers'))
              /\ yAxis2'.options = NonDate(HeaderColumns(headers'))
              /\ xAxis'.value = "Date"
              /\ chart' = Traces(backend, xAxis'.value, yAxis1'.value, yAxis2'.value))]_vars

\* The page just loaded a saved table of two Rows and plotted both.
C15_Witness ==
    /\ loaded
    /\ lastOp = Op("load", "ok")
    /\ Len(tableData) = 2
    /\ Len(body) = 2
    /\ Len(chart.x) = 2

\* Two characters are the same letter, in either case.
C16_SameLetter(a, b) ==
    \/ a = b
    \/ \E i \in 1..Len(UpperCase) : {a, b} = {UpperCase[i], LowerCase[i]}

\* The name ends with the extension ext, in any case, and the dot of ext is
\* the last dot of the name.
C16_HasExtension(name, ext) ==
    LET at == Len(name) - Len(ext)
    IN  /\ at >= 0
        /\ \A k \in 1..Len(ext) : C16_SameLetter(name[at + k], ext[k])
        /\ \A k \in 2..Len(ext) : name[at + k] # "."

C16_Allowed(file) ==
    /\ file.present
    /\ \E ext \in {<<".", "c", "s", "v">>, <<".", "x", "l", "s", "x">>, <<".", "x", "l", "s">>} :
          C16_HasExtension(file.name, ext)

\* C16. Import extension gate: dropping a file whose extension, compared
\* case-insensitively, is not .csv, .xlsx or .xls, or dropping no file,
\* raises an alert, issues no backend request and leaves the Dataset, the
\* Column Registry and the axis selections unchanged.
C16_ExtensionGate ==
    [][lastOp'.name = "drop" =>
          \A file \in DroppedFiles :
             (~C16_Allowed(file) /\ StepTo(drop(Cur, file)))
             => /\ lastOp' = Op("drop", "alert")
                /\ requests' = requests
                /\ backend' = backend
                /\ tableData' = tableData
                /\ HeaderColumns(headers') = HeaderColumns(headers)
                /\ <<xAxis', yAxis1', yAxis2'>> = <<xAxis, yAxis1, yAxis2>>]_vars

\* A file was refused on a page that shows Rows.
C16_Witness ==
    /\ loaded
    /\ Rows # {}
    /\ lastOp = Op("drop", "alert")
    /\ requests = <<>>

\* The clear_data and reset_table requests in flight.
C17_Destructive(reqs) ==
    {i \in 1..Len(reqs) : reqs[i].url \in {"clear_data", "reset_table"}}

\* C17. Confirmation gate: when the user declines the confirmation of
\* clearAllData or resetTable, no request is issued and the Dataset, the
\* Column Registry, the column counter and the axis selections are
\* unchanged; a clear_data or reset_table request is only ever issued by a
\* step in which the confirmation was accepted.
C17_ConfirmationGate ==
    [][/\ (lastOp'.name \in {"clearAllData", "resetTable"}
            /\ (StepTo(clearAllData(Cur, FALSE)) \/ StepTo(resetTable(Cur, FALSE))))
           => /\ requests' = requests
              /\ backend' = backend
              /\ tableData' = tableData
              /\ HeaderColumns(headers') = HeaderColumns(headers)
              /\ columnCounter' = columnCounter
              /\ <<xAxis', yAxis1', yAxis2'>> = <<xAxis, yAxis1, yAxis2>>
       /\ Cardinality(C17_Destructive(requests')) > Cardinality(C17_Destructive(requests))
           => lastOp' \in {Op("clearAllData", "confirmed"), Op("resetTable", "confirmed")}]_vars

\* The user declined to clear a page that shows Rows.
C17_Witness ==
    /\ loaded
    /\ Rows # {}
    /\ lastOp = Op("clearAllData", "declined")
    /\ requests = <<>>

\* C18. Date identity: in every reachable state of the loaded page "Date"
\* is a column of the Column Registry and a key of every Row: no operation,
\* and no blur of a header, renames or removes it.
C18_DateIdentity ==
    loaded =>
        /\ Includes(Registry, "Date")
        /\ \A i \in Rows : Has(tableData[i], "Date")

\* A column was renamed on a page that shows Rows, and Date is still the
\* first column.
C18_Witness ==
    /\ loaded
    /\ Rows # {}
    /\ lastOp = Op("headerBlur", "committed")
    /\ Registry[1] = "Date"

\* The keys a step has added to a Row that is kept at its index.
C19_NewKeys ==
    UNION {KeySet(tableData'[i]) \ KeySet(tableData[i]) :
              i \in {j \in 1..Len(tableData') :
                        /\ j <= Len(tableData)
                        /\ ~IsHole(tableData'[j])
                        /\ ~IsHole(tableData[j])}}

\* C19. Old identifier is dead after rename: once a rename of A to B has
\* completed, no header, input or body cell carries A; and a cell edit,
\* whether accepted, rejected or rolled back, creates no key in a Row that
\* is not a column of the Column Registry (so never A again).
C19_OldIdentifierDead ==
    [][/\ lastOp'.name = "headerBlur" =>
             \A h \in 1..Len(headers) : \A typed \in TypedInto(h) :
                RenameCommits(h, typed) =>
                   LET A == headers[h].col
                   IN  /\ \A i \in 1..Len(headers') : headers'[i].col # A
                       /\ \A i \in 1..Len(inputs') : inputs'[i].id # A
                       /\ \A r \in 1..Len(body') : \A c \in 1..Len(body'[r].cells) :
                             body'[r].cells[c].col # A
       /\ lastOp'.name \in {"cellBlur", "cellEditResponse"} =>
             C19_NewKeys \subseteq {getColumnHeaders(Cur)[i] : i \in 1..Len(getColumnHeaders(Cur))}'
      ]_vars

\* Every Row has the columns of the Column Registry as its keys.
C20_Agree == \A i \in Rows : KeySet(tableData[i]) = RegistrySet

\* The Row the edit of request req keeps for its rollback had, when the edit
\* was made, the keys of the Rows of the Dataset the request carries.
C20_Fresh(req) ==
    \A j \in 1..Len(req.body) :
        ~IsHole(req.body[j]) => KeySet(req.body[j]) = KeySet(req.row)

\* C20. Late rollback is structure-safe: when the failure of a cell edit's
\* replace_data is handled on a page whose Rows and Column Registry agree,
\* whatever addColumn, rename, clearAll, resetTable or import has completed
\* since the edit, the rollback adds no Row, changes no Row other than the
\* edited one, and leaves every Row's key set equal to the Column Registry.
C20_LateRollback ==
    [][lastOp'.name = "cellEditResponse" =>
          \A i \in 1..Len(requests) : \A outcome \in {"httpError", "networkError"} :
             (/\ requests[i].cb = "cellEdit"
              /\ C20_Fresh(requests[i])
              /\ C20_Agree
              /\ StepTo(respond(Cur, i, outcome)))
             => /\ Len(tableData') = Len(tableData)
                /\ Rows' = Rows
                /\ \A j \in 1..Len(tableData) :
                      j # requests[i].rowIndex => tableData'[j] = tableData[j]
                /\ C20_Agree']_vars

\* C21. Client/backend convergence: when every request succeeds and the
\* backend serves the requests in the order the client issued them, then
\* whenever no request is in flight the backend's stored Dataset equals the
\* client's Dataset, for every interleaving of addRow, cell edit, addColumn,
\* rename and clearAll with the pending responses.
C21_Convergence ==
    (loaded /\ requests = <<>>) => backend = tableData

\* C22. Unordered writes race: an accepted cell edit leaves the requests in
\* flight as they are and adds its own; a replace_data that succeeds makes
\* the backend hold its payload, whatever was served before, and the client
\* takes nothing from the answer: its Dataset and the other requests stay.
C22_UnorderedWrites ==
    [][/\ lastOp' = Op("cellBlur", "accepted") =>
             /\ Len(requests') = Len(requests) + 1
             /\ SubSeq(requests', 1, Len(requests)) = requests
       /\ lastOp' = Op("cellEditResponse", "saved") =>
             \A i \in 1..Len(requests) :
                (requests[i].cb = "cellEdit" /\ StepTo(respond(Cur, i, "ok")))
                => /\ backend' = requests[i].body
                   /\ tableData' = tableData
                   /\ requests' = RemoveAt(requests, i)]_vars

\* Two edits of the one Row, its Date and its number, were in flight
\* together and both have completed, the later one first: the client holds
\* both edits and the backend the first one only.
C22_Witness ==
    /\ loaded
    /\ requests = <<>>
    /\ lastOp = Op("cellEditResponse", "saved")
    /\ tableData = << <<Entry("Date", Str(NoSuchDay)), Entry("Variable 1", Num(350))>> >>
    /\ backend = << <<Entry("Date", Str(NoSuchDay)), Entry("Variable 1", Num(100))>> >>

\* The columns selected on the three axes.
C23_Chosen == <<xAxis.value, yAxis1.value, yAxis2.value>>

\* C23. Axis choices survive re-renders: addRow, an accepted or rejected
\* cell edit, clearAll and addColumn leave the X, Y1 and Y2 selections as
\* they were before the operation, provided the selected columns are still
\* columns of the Column Registry.
C23_AxisChoicesSurvive ==
    [][(/\ loaded
        /\ lastOp'.name \in {"addRow", "cellBlur", "cellEditResponse", "clearAllData",
                             "clearResponse", "addColumn"}
        /\ \A k \in 1..3 : Includes(Registry', C23_Chosen[k]))
       => C23_Chosen' = C23_Chosen]_vars

\* Row b is Row a but for what it holds under key col.
C24_SameButFor(a, b, col) ==
    \A k \in (KeySet(a) \cup KeySet(b)) \ {col} :
        Has(a, k) /\ Has(b, k) /\ Get(a, k) = Get(b, k)

\* C24. Accepted cell edit persists the whole table: an accepted cell edit
\* updates, in the step of the edit itself, one key of one Row of the Row
\* Store and nothing else, and issues exactly one replace_data request
\* whose body is the whole Dataset as it is right after the update; a
\* rejected edit issues no request.
C24_EditPersistsTable ==
    [][lastOp'.name = "cellBlur" =>
         \A r \in 1..Len(body) : \A c \in 1..Len(body[r].cells) :
            \A typed \in TypedIntoCell(r, c) :
               LET col == body[r].cells[c].col
                   idx == body[r].index
               IN  StepTo(cellBlur(Cur, r, c, typed)) =>
                      IF idx <= Len(tableData) /\ ~FailsValidation(col, Trim(typed))
                      THEN /\ Len(tableData') = Len(tableData)
                           /\ \A j \in 1..Len(tableData) :
                                 j # idx => tableData'[j] = tableData[j]
                           /\ Has(tableData'[idx], col)
                           /\ C24_SameButFor(Spread(tableData[idx]), tableData'[idx], col)
                           /\ Len(requests') = Len(requests) + 1
                           /\ SubSeq(requests', 1, Len(requests)) = requests
                           /\ requests'[Len(requests')].url = "replace_data"
                           /\ requests'[Len(requests')].body = tableData'
                           /\ backend' = backend
                      ELSE requests' = requests]_vars

\* An edit of a number cell of a table of two Rows has been accepted and its
\* request carries the Dataset with the new number in it.
C24_Witness ==
    /\ lastOp = Op("cellBlur", "accepted")
    /\ Len(tableData) = 2
    /\ requests # <<>>
    /\ requests[Len(requests)].columnName # "Date"
    /\ requests[Len(requests)].body = tableData
    /\ \E i \in Rows : Has(tableData[i], "Variable 1") /\ Get(tableData[i], "Variable 1") = Num(350)

\* What the requests in flight ask of the backend, in the order of their issue.
C25_Sent(rs) == [i \in 1..Len(rs) |-> <<rs[i].url, rs[i].body>>]

\* C25. addColumn effect: addColumn appends one identifier at the end of the
\* Column Registry, gives every existing Row that key with the value 0 and
\* leaves its other keys and values, the number of Rows and their order
\* unchanged, and issues exactly one replace_data request carrying the whole
\* updated Dataset.
C25_AddColumnEffect ==
    [][(loaded /\ lastOp'.name = "addColumn" /\ StepTo(addColumn(Cur))) =>
          LET key == NewColumnKey(columnCounter)
          IN  /\ Registry' = Append(Registry, key)
              /\ Len(tableData') = Len(tableData)
              /\ Rows' = Rows
              /\ \A i \in Rows :
                    /\ KeySet(tableData'[i]) = KeySet(tableData[i]) \cup {key}
                    /\ Get(tableData'[i], key) = Num(0)
                    /\ C24_SameButFor(tableData[i], tableData'[i], key)
              /\ C25_Sent(requests') =
                    Append(C25_Sent(requests), <<"replace_data", tableData'>>)
              /\ backend' = backend]_vars

\* A column was added to a table that shows Rows: each has the new key at 0.
C25_Witness ==
    /\ loaded
    /\ lastOp = Op("addColumn", "ok")
    /\ Rows # {}
    /\ Len(tableData) = 2
    /\ Rows = {1, 2}
    /\ Len(Registry) = 3
    /\ \A i \in Rows : Has(tableData[i], Registry[3]) /\ Get(tableData[i], Registry[3]) = Num(0)

\* C26. addRow effect: addRow appends exactly one Row at the end of the
\* Dataset; its keys are the identifiers of the Column Registry, its value for
\* each column other than Date is the number parsed from that column's input,
\* 0 when the input is empty, and never a non-number, and its Date is the value
\* of the Date input, today's local date when that input is empty; the
\* existing Rows are unchanged, exactly one add_row request carrying the new
\* Row is issued, and every input is empty afterwards.
C26_AddRowEffect ==
    [][(loaded /\ lastOp'.name = "addRow") =>
          \A dateText \in AddRowDates \cup {InputValue(inputs, "Date")} :
             \A valueText \in AddRowValues :
                StepTo(addRow([Cur EXCEPT !.inputs = FilledInputs(@, dateText, valueText)]))
                => LET row == tableData'[Len(tableData')]
                   IN  /\ lastOp'.outcome = "ok"
                       /\ tableData' = Append(tableData, row)
                       /\ KeySet(row) = RegistrySet
                       /\ Registry' = Registry
                       /\ \A key \in RegistrySet \ {"Date"} :
                             Get(row, key) =
                                IF Trim(valueText) = <<>> THEN Num(0)
                                ELSE Num(parseFloat(valueText).num)
                       /\ Get(row, "Date") =
                             Str(IF dateText = <<>> THEN getTodayLocal(Cur) ELSE dateText)
                       /\ C25_Sent(requests') =
                             Append(C25_Sent(requests), <<"add_row", row>>)
                       /\ backend' = backend
                       /\ \A i \in 1..Len(inputs') : inputs'[i].value = <<>>]_vars

\* The state of the page: everything but the requests in flight and the store
\* of the backend.
C27_Client ==
    <<tableData, columnCounter, headers, inputs, xAxis, yAxis1, yAxis2, body,
      chart, panel>>

\* The continuations of the requests in flight, in the order of their issue.
C27_Callbacks(rs) == [j \in 1..Len(rs) |-> rs[j].cb]

\* C27. No rollback for adds: when the add_row request of addRow or the
\* replace_data request of addColumn fails, the Dataset and the Column
\* Registry keep the appended Row and the added column with its values; the
\* failure changes nothing on the page and nothing in the backend store.
C27_NoRollbackForAdds ==
    [][lastOp'.name \in {"addRowResponse", "addColumnResponse"} =>
          \A i \in 1..Len(requests) : \A outcome \in {"httpError", "networkError"} :
             (/\ requests[i].cb \in {"addRow", "addColumn"}
              /\ C27_Callbacks(requests') = C27_Callbacks(RemoveAt(requests, i))
              /\ StepTo(respond(Cur, i, outcome)))
             => /\ C27_Client' = C27_Client
                /\ Registry' = Registry
                /\ backend' = backend
                /\ requests' = RemoveAt(requests, i)]_vars

\* Both additions failed: the page shows a Row and a column that the backend
\* never stored.
C27_Witness ==
    /\ loaded
    /\ lastOp.name \in {"addRowResponse", "addColumnResponse"}
    /\ requests = <<>>
    /\ Len(tableData) = Len(backend) + 1
    /\ Len(Registry) = 3
    /\ \A i \in Rows : KeySet(tableData[i]) = RegistrySet
    /\ \A i \in 1..Len(backend) : ~Has(backend[i], Registry[3])

\* The continuations of the core requests: add_row, replace_data from a cell
\* edit, addColumn or a rename, clear_data, reset_table, their get_data, and
\* import_datafile.
C28_CoreCallbacks ==
    {"addRow", "cellEdit", "addColumn", "rename", "clear", "clearData", "reset",
     "resetData", "import"}

\* The ways a handler ends that put a message before the user: an alert, or
\* the inline error panel.
C28_Message == {"alert", "error"}

\* C28. Failures are visible: every rejection by the backend and every
\* network failure of a core request ends in a message the user sees (an alert
\* or the inline error panel) and is handled by the page.
C28_FailuresVisible ==
    [][lastOp'.name \notin {"init", "load"} =>
          \A i \in 1..Len(requests) : \A outcome \in Outcomes(requests[i]) \ {"ok"} :
             (/\ requests[i].cb \in C28_CoreCallbacks
              /\ C27_Callbacks(requests') = C27_Callbacks(RemoveAt(requests, i))
              /\ StepTo(respond(Cur, i, outcome)))
             => lastOp'.outcome \in C28_Message]_vars

\* C29. Import failure is state-preserving: when import_datafile answers with
\* a non-success status or the request fails, the Dataset, the headers, the
\* inputs, the drop-downs and the plot are unchanged and the user sees an
\* alert; on success the Row Store is replaced by exactly the rows of the
\* response.
C29_ImportOutcome ==
    [][lastOp'.name = "importResponse" =>
          \A i \in 1..Len(requests) : \A outcome \in Outcomes(requests[i]) :
             (/\ requests[i].cb = "import"
              /\ C27_Callbacks(requests') = C27_Callbacks(RemoveAt(requests, i))
              /\ StepTo(respond(Cur, i, outcome)))
             => IF outcome = "ok"
                THEN /\ tableData' = requests[i].body
                     /\ lastOp' = Op("importResponse", "imported")
                ELSE /\ C27_Client' = C27_Client
                     /\ backend' = backend
                     /\ lastOp' = Op("importResponse", "alert")]_vars

\* An import failed on a page that shows a saved table and its plot.
C29_Witness ==
    /\ loaded
    /\ lastOp = Op("importResponse", "alert")
    /\ tableData = SavedRows
    /\ backend = SavedRows
    /\ chart # NoChart
    /\ requests = <<>>

\* The number of get_data requests of clearAllData in flight.
C30_Refetches(rs) == Cardinality({j \in 1..Len(rs) : rs[j].cb = "clearData"})

\* C30. clearAll sequencing: after the confirmation, get_data is requested
\* only in the step that receives the clear_data response; the Dataset is
\* untouched by the confirmation and by the clear_data response; when get_data
\* answers, the Dataset becomes the rows of that answer, and the table and the
\* plot are rendered from it.
C30_ClearSequencing ==
    [][/\ C30_Refetches(requests') > C30_Refetches(requests) =>
             /\ lastOp' = Op("clearResponse", "refetching")
             /\ \E i \in 1..Len(requests) :
                   /\ requests[i].cb = "clear"
                   /\ C27_Callbacks(requests') =
                         Append(C27_Callbacks(RemoveAt(requests, i)), "clearData")
             /\ tableData' = tableData
             /\ body' = body
             /\ chart' = chart
       /\ lastOp'.name = "clearAllData" =>
             /\ tableData' = tableData
             /\ body' = body
             /\ chart' = chart
             /\ backend' = backend
             /\ C30_Refetches(requests') = C30_Refetches(requests)
       /\ lastOp' = Op("clearResponse", "cleared") =>
             \A i \in 1..Len(requests) :
                (/\ requests[i].cb = "clearData"
                 /\ C27_Callbacks(requests') = C27_Callbacks(RemoveAt(requests, i))
                 /\ StepTo(respond(Cur, i, "ok")))
                => /\ tableData' = backend
                   /\ backend' = backend
                   /\ body' = renderTableRows(Cur').body
                   /\ chart' = updatePlot(Cur').chart]_vars

\* get_data answered with rows, and the page shows them.
C30_Witness ==
    /\ loaded
    /\ lastOp = Op("clearResponse", "cleared")
    /\ backend # <<>>
    /\ tableData = backend
    /\ Len(body) = Len(tableData)

\* The identifiers of the input cells, in order.
C31_InputIds(ins) == [i \in 1..Len(ins) |-> ins[i].id]

\* The columns a reset rebuilds the page from: the keys of the first Row of the
\* get_data response, the default three when it holds no Row.
C31_Columns(data) ==
    IF \E i \in 1..Len(data) : ~IsHole(data[i])
    THEN Keys(data[CHOOSE i \in 1..Len(data) :
                     ~IsHole(data[i]) /\ \A j \in 1..(i - 1) : IsHole(data[j])])
    ELSE DefaultColumns

C32_Kept(s) ==
    <<s.tableData, s.columnCounter, s.headers, s.inputs, s.xAxis, s.yAxis1,
      s.yAxis2, s.body, s.panel, s.requests, s.backend, getColumnHeaders(s)>>

\* C32. Render is pure: updatePlot changes neither the Dataset (contents and
\* Row order), nor the Column Registry, nor the axis selections, nor the
\* column counter, and issues no request; run twice in a row it gives the
\* chart the same input as run once.  A change of an axis selection, whose
\* listener is updatePlot, changes that selection and the chart only, and the
\* chart is the one updatePlot draws for the new selection.
C32_RenderIsPure ==
    [][/\ LET once == updatePlot(Cur)
              twice == updatePlot(once)
          IN  /\ C32_Kept(once) = C32_Kept(Cur)
              /\ twice.chart = once.chart
              /\ C32_Kept(twice) = C32_Kept(once)
       /\ lastOp'.name = "selectAxis" =>
             /\ tableData' = tableData
             /\ headers' = headers
             /\ columnCounter' = columnCounter
             /\ requests' = requests
             /\ backend' = backend
             /\ xAxis'.options = xAxis.options
             /\ yAxis1'.options = yAxis1.options
             /\ yAxis2'.options = yAxis2.options
             /\ chart' = updatePlot([Cur EXCEPT !.xAxis = xAxis',
                                                 !.yAxis1 = yAxis1',
                                                 !.yAxis2 = yAxis2']).chart]_vars

\* The plot was drawn, after a change of axis, from a table whose Rows are not
\* in the order of the X values: the chart is sorted, the table is not.
C32_Witness ==
    /\ loaded
    /\ lastOp.name = "selectAxis"
    /\ Len(tableData) >= 2
    /\ chart = updatePlot(Cur).chart
    /\ chart.x # [i \in 1..Len(tableData) |-> Prop(tableData[i], xAxis.value)]

\* Preferred values a caller may pass: a column, none, or a column that is gone.
C33_Preferred == RegistrySet \cup {"", "Removed"}

\* C33. Dropdown rebuild: after updateDropdownSelectors(pX, pY1, pY2), the X
\* options are exactly the Column Registry in order and the Y1 and Y2 options
\* are exactly the registry without "Date"; each axis takes its preferred
\* value when that value is among its options and its default otherwise (X:
\* "Date"; Y1: the first non-Date column; Y2: the first non-Date column other
\* than the resolved Y1, the value of Y1 when there is none); and, when a
\* non-Date column exists, every resulting selection is one of its own
\* options.
C33_DropdownRebuild ==
    loaded =>
       LET page == Cur
           columns == Registry
           others == NonDate(columns)
       IN  /\ \A pX, pY1, pY2 \in C33_Preferred :
                 LET after == updateDropdownSelectors(page, pX, pY1, pY2)
                     x == after.xAxis
                     y1 == after.yAxis1
                     y2 == after.yAxis2
                     notY1 == SelectSeq(others, LAMBDA col : col # y1.value)
                 IN  /\ x.options = columns
                     /\ y1.options = others
                     /\ y2.options = others
                     /\ others # <<>> =>
                           /\ x.value = IF Includes(columns, pX) THEN pX ELSE "Date"
                           /\ y1.value = IF Includes(others, pY1) THEN pY1 ELSE others[1]
                           /\ y2.value = IF Includes(others, pY2) THEN pY2
                                         ELSE IF notY1 # <<>> THEN notY1[1]
                                         ELSE y1.value
                           /\ Includes(x.options, x.value)
                           /\ Includes(y1.options, y1.value)
                           /\ Includes(y2.options, y2.value)
           /\ lastOp = Op("headerBlur", "committed") =>
                 /\ xAxis.options = columns
                 /\ yAxis1.options = others
                 /\ yAxis2.options = others

\* A rename rebuilt the drop-downs and a selection made by hand, which is not
\* the default of its axis, is still selected.
C33_Witness ==
    /\ loaded
    /\ lastOp = Op("headerBlur", "committed")
    /\ Len(NonDate(Registry)) = 2
    /\ yAxis1.value = NonDate(Registry)[2]
    /\ yAxis2.value = NonDate(Registry)[2]
    /\ xAxis.value # "Date"

\* Header rows getColumnHeaders may find: the one on the page, none, and the
\* one on the page with the identifier of its last header missing.
C34_HeaderRows ==
    {headers, <<>>}
       \cup (IF headers = <<>> THEN {}
             ELSE {[headers EXCEPT ![Len(headers)].col = ""]})

\* Datasets getColumnHeaders may find: the one of the page, none, and tables
\* whose first Row has other keys than the page has headers.
C34_Datasets == {tableData, <<>>, SavedRows, ImportedRows}

\* C34. Column resolution precedence: getColumnHeaders returns the
\* identifiers of the header elements, in their order, when there is at least
\* one header and none has an empty identifier; otherwise the keys of the
\* first Row when the Dataset is not empty; otherwise the default Date,
\* Variable 1, Variable 2.
C34_ResolutionPrecedence ==
    \A hs \in C34_HeaderRows : \A data \in C34_Datasets :
       LET found == getColumnHeaders([Cur EXCEPT !.headers = hs, !.tableData = data])
           ids == [i \in 1..Len(hs) |-> hs[i].col]
       IN  IF Len(hs) >= 1 /\ ~Includes(ids, "")
           THEN found = ids
           ELSE IF data # <<>>
           THEN found = Keys(data[1])
           ELSE found = <<"Date", "Variable 1", "Variable 2">>

\* The page shows imported Rows under the headers it had: the registry is the
\* headers' identifiers, not the keys of the first Row.
C34_Witness ==
    /\ loaded
    /\ lastOp = Op("importResponse", "imported")
    /\ tableData = ImportedRows
    /\ Registry = HeaderColumns(headers)
    /\ Registry # Keys(tableData[1])

\* No fetch of calculateCorrelations is in flight.
C35_AllEnded(rs) == \A i \in 1..Len(rs) : ~Includes(PairCallbacks, rs[i].cb)

\* C35. Plotted correlations are per-pair: calculateCorrelations issues
\* exactly three calculate_correlation requests (X-Y1, X-Y2, Y1-Y2) when the
\* three vectors are valid, and each pair's outcome is displayed on its own:
\* no ending of one pair's fetch, error payload or network failure, replaces
\* the pairs' lines by one failure message, and once the three fetches have
\* ended the panel lists the three pairs, each with its interpretation or its
\* error.
C35_PerPair ==
    [][/\ lastOp' = Op("calculateCorrelations", "calculating") =>
             C27_Callbacks(requests') = C27_Callbacks(requests) \o PairCallbacks
       /\ lastOp'.name = "pairResponse" =>
             /\ results'.shown # "failed"
             /\ C35_AllEnded(requests') =>
                   /\ results'.shown = "pairs"
                   /\ Len(results'.pairs) = 3
                   /\ \A k \in 1..3 : results'.pairs[k] \in {"interpretation", "error"}]_vars

\* The vector extracted for the column holds a value that is no number.
C36_Unparseable(columnName) ==
    \E i \in Rows : ExtractNumeric(tableData[i], columnName).nan

\* C36. Plotted correlations short-circuit: when the vector extracted for the
\* selected X, Y1 or Y2 column holds a value that fails to parse (an
\* unparseable date included), calculateCorrelations shows the error message
\* and issues no calculate_correlation request; in no case does it change the
\* Dataset or the axis selections.
C36_ShortCircuit ==
    [][(lastOp'.name = "calculateCorrelations" /\ StepTo(calculateCorrelations(Cur))) =>
          /\ tableData' = tableData
          /\ xAxis' = xAxis
          /\ yAxis1' = yAxis1
          /\ yAxis2' = yAxis2
          /\ backend' = backend
          /\ IF \E col \in {xAxis.value, yAxis1.value, yAxis2.value} : C36_Unparseable(col)
             THEN /\ results'.shown = "invalid"
                  /\ requests' = requests
             ELSE /\ results'.shown = "calculating"
                  /\ Len(requests') = Len(requests) + 3]_vars

\* The button was clicked on a table one of whose dates is no date, with Date
\* on the X axis: the panel shows the error and nothing was sent.
C36_Witness ==
    /\ loaded
    /\ lastOp = Op("calculateCorrelations", "invalid")
    /\ results.shown = "invalid"
    /\ xAxis.value = "Date"
    /\ tableData = UnsortedRows
    /\ requests = <<>>

\* C37. One rename, one write: a committed rename issues exactly one
\* replace_data request, carrying the renamed Dataset, and renames the key
\* once, however many blur listeners setupColumnTitleListeners has attached
\* to the header; a failure of that request changes nothing on the page.
C37_OneRenameOneWrite ==
    [][/\ lastOp' = Op("headerBlur", "committed") =>
             \A h \in 1..Len(headers) : \A typed \in TypedInto(h) :
                (headers[h].n > 0 /\ StepTo(headerBlur(Cur, h, typed)))
                => LET A == headers[h].col
                       B == HeaderTitle(typed)
                   IN  /\ tableData' = RenamedData(tableData, A, B)
                       /\ HeaderColumns(headers') = [HeaderColumns(headers) EXCEPT ![h] = B]
                       /\ C25_Sent(requests') =
                             Append(C25_Sent(requests), <<"replace_data", tableData'>>)
                       /\ requests'[Len(requests')].cb = "rename"
                       /\ backend' = backend
       /\ lastOp'.name = "renameResponse" =>
             \A i \in 1..Len(requests) : \A outcome \in {"httpError", "networkError"} :
                (/\ requests[i].cb = "rename"
                 /\ C27_Callbacks(requests') = C27_Callbacks(RemoveAt(requests, i))
                 /\ StepTo(respond(Cur, i, outcome)))
                => /\ C27_Client' = C27_Client
                   /\ backend' = backend]_vars

\* A header that carries two blur listeners was renamed, and one request is
\* in flight.
C37_Witness ==
    /\ loaded
    /\ lastOp = Op("headerBlur", "committed")
    /\ \E h \in 1..Len(headers) :
          /\ headers[h].n >= 2
          /\ headers[h].col = "Variable 3"
          /\ \A i \in Rows : Has(tableData[i], "Variable 3")
    /\ Len(requests) = 1
    /\ requests[1].cb = "rename"

\* The calendar day the clock of the device reads in the device's zone.
C38_LocalDay == ((device.day * 24) + device.hour + device.zone) \div 24

\* YYYY-MM-DD of a day of February 2024.
C38_DateText(day) ==
    <<"2", "0", "2", "4", "-", "0", "2", "-", Digits[(day \div 10) + 1], Digits[(day % 10) + 1]>>

\* A step of addRow from a page whose Date input is empty.
C38_AddsFromEmptyDate ==
    loaded /\ lastOp'.name = "addRow" /\ InputValue(inputs, "Date") = <<>>

\* The Date of the Row an addRow step appended when the Date input was empty
\* is the calendar day the device's clock reads in the device's zone.
C38_DefaultIsLocalDay ==
    \A valueText \in AddRowValues :
       StepTo(addRow([Cur EXCEPT !.inputs = FilledInputs(@, <<>>, valueText)]))
       => /\ lastOp'.outcome = "ok"
          /\ Len(tableData') = Len(tableData) + 1
          /\ Get(tableData'[Len(tableData')], "Date") = Str(C38_DateText(C38_LocalDay))

\* C38. Local default date: when addRow runs with an empty Date input, the
\* Date of the new Row is the device's local calendar date at that moment, for
\* every offset of the device from UTC, behind and ahead of it, and every time
\* of day.
C38_LocalDefaultDate ==
    [][C38_AddsFromEmptyDate => C38_DefaultIsLocalDay]_vars

\* The same on the devices whose zone is on UTC or behind it.
C38_LocalDefaultDateBehindUtc ==
    [][(C38_AddsFromEmptyDate /\ device.zone <= 0) => C38_DefaultIsLocalDay]_vars

\* On a device ahead of UTC the default is the day before the local day.
C38_DayBeforeAheadOfUtc ==
    [][(C38_AddsFromEmptyDate /\ device.zone > 0)
          => \A valueText \in AddRowValues :
                StepTo(addRow([Cur EXCEPT !.inputs = FilledInputs(@, <<>>, valueText)]))
                => Get(tableData'[Len(tableData')], "Date")
                      = Str(C38_DateText(C38_LocalDay - 1))]_vars

====
